---- MODULE Spec2Model ----
(***************************************************************************)
(* State-machine model of plugins.v2/p123linker/__init__.py: the remote    *)
(* tree traversal (iterdir) and the plugin p123linker with its two sync    *)
(* passes (full_sync_strm_files, incremental_sync_files).                  *)
(*                                                                         *)
(* Representation of Python values:                                        *)
(*   - a '/'-separated str is the sequence of its segments, str.split('/') *)
(*     ("" is <<"">>, "a/b" is <<"a","b">>, "/a" is <<"","a">>), so that   *)
(*     s + "/" + t is the concatenation of the two sequences;              *)
(*   - a pathlib.Path is the sequence of its parts (<<"/","local","x">>);  *)
(*   - time.time() is the variable clock, in whole seconds.                *)
(***************************************************************************)
EXTENDS Integers, Sequences, FiniteSets, TLC

VARIABLES
    drive,       \* remote drive: node id -> [parent, name, isdir]
    mtime,       \* remote drive: file id -> UpdateTime (Absent when not sent)
    clock,       \* int(time.time())
    self,        \* the p123linker instance's attributes
    stored,      \* the host's persisted plugin configuration (NoConfig = none)
    orphans,     \* jobs of running schedulers the plugin no longer references
    localDirs,   \* local file system: the directories that exist
    localFiles,  \* local file system: path -> content
    pc,          \* per worker: position in the pass it runs
    loc,         \* per worker: the local variables of the pass
    log,         \* per worker: what the current pass did so far (history)
    events,      \* number of environment events so far (failures, remote changes)
    inits        \* number of init_plugin calls so far

vars == <<drive, mtime, clock, self, stored, orphans, localDirs, localFiles,
          pc, loc, log, events, inits>>

(***************************************************************************)
(* Bounds of the model.                                                    *)
(***************************************************************************)
PageSize == 2      \* entries the remote API returns per page
MaxClock == 4      \* last clock value
MaxEvents == 1     \* injected failures and remote modifications per behaviour
MaxInits == 1      \* init_plugin calls per behaviour
MaxNodes == 4      \* nodes below the root in the trees of SpecIter

InitClock == 3
Absent == -1       \* a key the dict does not hold
EndSentinel == -1  \* the "Next" value "-1" of the last page
NoConfig == [none |-> TRUE]
NoSched == [none |-> TRUE]

Workers == {"w1", "w2"}

Min(a, b) == IF a < b THEN a ELSE b

Last(s) == s[Len(s)]

(***************************************************************************)
(* str and pathlib helpers.                                                *)
(***************************************************************************)
EmptyStr == <<"">>

\* Path(name).suffix and Path(name).stem of the names of the model
SplitExtTab ==
    [n \in {"A.mkv", "A.mp4", "A.nfo", "B 1.MKV", "C.mp4", "a.b.mkv"} |->
        CASE n = "A.mkv" -> <<"A", ".mkv">>
          [] n = "A.mp4" -> <<"A", ".mp4">>
          [] n = "a.b.mkv" -> <<"a.b", ".mkv">>
          [] n = "A.nfo" -> <<"A", ".nfo">>
          [] n = "B 1.MKV" -> <<"B 1", ".MKV">>
          [] n = "C.mp4" -> <<"C", ".mp4">>]

Stem(name) == IF name \in DOMAIN SplitExtTab THEN SplitExtTab[name][1] ELSE name

Suffix(name) == IF name \in DOMAIN SplitExtTab THEN SplitExtTab[name][2] ELSE ""

\* str.lower()
Lower(s) ==
    CASE s = ".MKV" -> ".mkv"
      [] s = "MKV" -> "mkv"
      [] OTHER -> s

\* str.strip()
Strip(s) ==
    CASE s = " MKV" -> "MKV"
      [] s = " mkv" -> "mkv"
      [] s = " " -> ""
      [] OTHER -> s

\* urllib.parse.quote of one path segment ('/' is safe, so segments are kept)
QuoteSeg(s) == IF s = "B 1.MKV" THEN "B%201.MKV" ELSE s

UnquoteSeg(s) == IF s = "B%201.MKV" THEN "B 1.MKV" ELSE s

quote(segs) == [i \in 1..Len(segs) |-> QuoteSeg(segs[i])]

unquote(segs) == [i \in 1..Len(segs) |-> UnquoteSeg(segs[i])]

\* s.strip('/') of a str given by its segments
RECURSIVE DropLeadingEmpty(_)
DropLeadingEmpty(s) ==
    IF Len(s) > 1 /\ s[1] = "" THEN DropLeadingEmpty(Tail(s)) ELSE s

RECURSIVE DropTrailingEmpty(_)
DropTrailingEmpty(s) ==
    IF Len(s) > 1 /\ Last(s) = "" THEN DropTrailingEmpty(SubSeq(s, 1, Len(s) - 1)) ELSE s

StripSlash(s) == DropTrailingEmpty(DropLeadingEmpty(s))

NonEmptySegs(s) == SelectSeq(s, LAMBDA x : x # "")

\* Path(s).parts
PathParts(s) ==
    IF Len(s) > 1 /\ s[1] = ""
    THEN <<"/">> \o NonEmptySegs(s)
    ELSE NonEmptySegs(s)

IsPrefix(a, b) == Len(a) <= Len(b) /\ SubSeq(b, 1, Len(a)) = a

\* Path(a).relative_to(b), on parts; the caller checks IsPrefix (ValueError otherwise)
RelativeTo(a, b) == SubSeq(a, Len(b) + 1, Len(a))

Parent(p) == IF Len(p) > 1 THEN SubSeq(p, 1, Len(p) - 1) ELSE p

\* the directories that exist after p.mkdir(parents=True, exist_ok=True)
Mkdirs(dirs, p) == dirs \cup {SubSeq(p, 1, k) : k \in 1..Len(p)}

(***************************************************************************)
(* The remote drive and its listing API (P123Client.fs_list).              *)
(***************************************************************************)
IsFile(d, i) == i \in 1..Len(d) /\ ~d[i].isdir

FileIds(d) == {i \in 1..Len(d) : ~d[i].isdir}

DirIds(d) == {i \in 1..Len(d) : d[i].isdir}

\* the entries of directory parent_id, in the order the API lists them
Children(d, parent_id) ==
    SelectSeq([i \in 1..Len(d) |-> i], LAMBDA i : d[i].parent = parent_id)

\* one element of "InfoList"
Item(d, mt, i) ==
    [FileId |-> i, FileName |-> d[i].name, Type |-> IF d[i].isdir THEN 1 ELSE 0,
     UpdateTime |-> IF d[i].isdir THEN Absent ELSE mt[i]]

\* the response to fs_list({"parentFileId": parent_id, "next": next, ...})
FsList(d, mt, parent_id, next) ==
    LET ch == Children(d, parent_id)
        hi == Min(next + PageSize, Len(ch))
    IN  [InfoList |-> [k \in 1..(hi - next) |-> Item(d, mt, ch[next + k])],
         Next |-> IF hi >= Len(ch) THEN EndSentinel ELSE hi]

(***************************************************************************)
(* iterdir: the generator's state between two steps.  queue holds          *)
(* (directory id, path) pairs; active is TRUE inside the paging loop of    *)
(* directory cur_id; items are the entries of the current page not yet     *)
(* handled.                                                                *)
(***************************************************************************)
iterdir(parent_id, only_file) ==
    [queue |-> <<[id |-> parent_id, path |-> EmptyStr]>>,
     active |-> FALSE, cur_id |-> 0, cur_path |-> EmptyStr,
     page |-> 1, next |-> 0, items |-> <<>>, respNext |-> 0,
     only_file |-> only_file]

NoIter == iterdir(0, FALSE)

\* `while queue` is over: StopIteration
Exhausted(g) == ~g.active /\ g.queue = <<>> /\ g.items = <<>>

\* a variant that takes the directory enqueued last, for comparison
DequeueLast(g) ==
    IF g.active THEN g
    ELSE [g EXCEPT !.queue = SubSeq(@, 1, Len(@) - 1), !.cur_id = Last(g.queue).id,
                   !.cur_path = Last(g.queue).path,
                   !.page = 1, !.next = 0, !.active = TRUE]

\* queue.popleft(); page = 1; _next = 0, when a new directory is begun
Dequeue(g) ==
    IF g.active THEN g
    ELSE [g EXCEPT !.queue = Tail(@), !.cur_id = Head(g.queue).id,
                   !.cur_path = Head(g.queue).path,
                   !.page = 1, !.next = 0, !.active = TRUE]

\* item_list = resp["data"]["InfoList"]; if not item_list: break
TakePage(g, resp) ==
    IF resp.InfoList = <<>>
    THEN [g EXCEPT !.active = FALSE]
    ELSE [g EXCEPT !.items = resp.InfoList, !.respNext = resp.Next]

\* a variant that joins unconditionally, for comparison
ItemPathNoCheck(current_path, name) == current_path \o <<name>>

\* f"{current_path}/{name}" if current_path else name
ItemPath(current_path, name) ==
    IF current_path # EmptyStr THEN current_path \o <<name>> ELSE <<name>>

\* a variant that leaves a directory after its first page, for comparison
EndOfPageFirst(g) ==
    IF g.items # <<>> THEN g ELSE [g EXCEPT !.active = FALSE]

\* after the last item of a page: Next == "-1" ends the directory
EndOfPage(g) ==
    IF g.items # <<>> THEN g
    ELSE IF g.respNext = EndSentinel
         THEN [g EXCEPT !.active = FALSE]
         ELSE [g EXCEPT !.page = @ + 1, !.next = g.respNext]

\* a variant that enqueues a directory twice, for comparison
StepItemTwice(g) ==
    LET item == Head(g.items)
        path == ItemPath(g.cur_path, item.FileName)
        q == IF item.Type # 0
             THEN g.queue \o <<[id |-> item.FileId, path |-> path],
                               [id |-> item.FileId, path |-> path]>>
             ELSE g.queue
    IN  EndOfPage([g EXCEPT !.queue = q, !.items = Tail(@)])

\* the generator after the body of `for item in item_list` ran for the head item
StepItem(g) ==
    LET item == Head(g.items)
        path == ItemPath(g.cur_path, item.FileName)
        q == IF item.Type # 0
             THEN Append(g.queue, [id |-> item.FileId, path |-> path])
             ELSE g.queue
    IN  EndOfPage([g EXCEPT !.queue = q, !.items = Tail(@)])

\* a variant that yields directories whatever only_file says, for comparison
YieldsAll(g) == TRUE

\* whether the head item is yielded: not (is_dir and only_file)
Yields(g) == ~(Head(g.items).Type # 0 /\ g.only_file)

\* the dict yielded for the head item
Yielded(g) ==
    LET item == Head(g.items)
    IN  [relpath |-> ItemPath(g.cur_path, item.FileName),
         is_dir |-> item.Type # 0,
         id |-> item.FileId,
         parent_id |-> g.cur_id,
         name |-> item.FileName,
         FileName |-> item.FileName,
         UpdateTime |-> item.UpdateTime]

\* history records
Ev(ev, id, path, n) == [ev |-> ev, id |-> id, path |-> path, n |-> n]

(***************************************************************************)
(* Configuration values.  A ','-separated str is the sequence of its       *)
(* tokens (split(',')); the path-pair text is the sequence of its lines    *)
(* (split('\n')), a line the sequence of its parts (split('#', 1)), a part *)
(* a '/'-separated str.  None and "" are both falsy: "" stands for both.   *)
(***************************************************************************)
BlankLine == <<EmptyStr>>

EmptyText == <<BlankLine>>

DefaultExpire == 5256000

DefaultInterval == 30

DefaultDomain == "https://vip.123pan.cn"

DefaultCron == "0 */7 * * *"

DefaultRmtExt == <<"mp4", "mkv">>

DefaultDownloadExt == <<"nfo">>

\* str(n) and int(s) of a persisted integer; None is the value of a missing key
StrOf(n) == <<"str", n>>

None == <<>>

IntOf(s) == s[2]

PairMovies == <<<<"", "local", "movies">>, <<"", "media", "movies">>>>

PairTv == <<<<"", "local", "tv">>, <<"", "media", "tv", "">>>>

PairGone == <<<<"", "local", "gone">>, <<"", "media", "gone">>>>

PairSub == <<<<"", "local", "sub">>, <<"", "media", "movies", "sub">>>>

Malformed == <<<<"", "local", "bad">>>>

\* the attributes of a freshly constructed p123linker (the class attributes)
ClassAttributes ==
    [_enabled |-> FALSE,
     _once_full_sync_strm |-> FALSE,
     _once_incremental_sync |-> FALSE,
     _uid |-> "",
     _secret_key |-> "",
     _expire_time |-> DefaultExpire,
     _custom_domain |-> DefaultDomain,
     _user_rmt_mediaext |-> <<"">>,
     _user_download_mediaext |-> <<"">>,
     _timing_full_sync_strm |-> FALSE,
     _full_sync_auto_download_mediainfo_enabled |-> FALSE,
     _cron_full_sync_strm |-> "",
     _full_sync_strm_paths |-> EmptyText,
     _last_sync_time |-> 0,
     _incremental_sync_interval |-> DefaultInterval,
     _incremental_sync_enabled |-> FALSE,
     _scheduler |-> NoSched]

\* the defaults of get_form, as the host hands them to init_plugin once saved
FormDefaults ==
    [enabled |-> FALSE,
     once_full_sync_strm |-> FALSE,
     once_incremental_sync |-> FALSE,
     uid |-> "",
     secret_key |-> "",
     expire_time |-> StrOf(DefaultExpire),
     custom_domain |-> DefaultDomain,
     user_rmt_mediaext |-> DefaultRmtExt,
     user_download_mediaext |-> DefaultDownloadExt,
     timing_full_sync_strm |-> FALSE,
     full_sync_auto_download_mediainfo_enabled |-> FALSE,
     cron_full_sync_strm |-> DefaultCron,
     full_sync_strm_paths |-> EmptyText,
     last_sync_time |-> StrOf(0),
     incremental_sync_interval |-> StrOf(DefaultInterval),
     incremental_sync_enabled |-> FALSE]

Working ==
    [FormDefaults EXCEPT !.enabled = TRUE, !.uid = "1001", !.secret_key = "k",
                         !.user_rmt_mediaext = <<"mkv">>,
                         !.user_download_mediaext = <<"nfo", "MKV">>,
                         !.full_sync_strm_paths = <<PairMovies, PairTv>>]

\* the configurations a user saves in this model
UserConfigs ==
    { Working,
      [Working EXCEPT !.last_sync_time = StrOf(2), !.custom_domain = "",
                      !.full_sync_auto_download_mediainfo_enabled = TRUE,
                      !.user_rmt_mediaext = <<"mp4", " MKV">>,
                      !.user_download_mediaext = <<"nfo", "MKV">>,
                      !.full_sync_strm_paths = <<Malformed, PairGone, BlankLine, PairMovies>>],
      [Working EXCEPT !.enabled = FALSE],
      [Working EXCEPT !.full_sync_strm_paths = EmptyText, !.last_sync_time = StrOf(2)],
      [Working EXCEPT !.uid = "", !.last_sync_time = None,
                      !.user_rmt_mediaext = <<"">>,
                      !.once_full_sync_strm = TRUE, !.once_incremental_sync = TRUE],
      [Working EXCEPT !.secret_key = ""],
      [Working EXCEPT !.last_sync_time = StrOf(2),
                      !.full_sync_strm_paths = <<PairSub>>] }

\* the dict __update_config hands to update_config
ConfigOf(s) ==
    [enabled |-> s._enabled,
     once_full_sync_strm |-> s._once_full_sync_strm,
     once_incremental_sync |-> s._once_incremental_sync,
     uid |-> s._uid,
     secret_key |-> s._secret_key,
     expire_time |-> StrOf(s._expire_time),
     custom_domain |-> s._custom_domain,
     user_rmt_mediaext |-> s._user_rmt_mediaext,
     user_download_mediaext |-> s._user_download_mediaext,
     timing_full_sync_strm |-> s._timing_full_sync_strm,
     full_sync_auto_download_mediainfo_enabled |-> s._full_sync_auto_download_mediainfo_enabled,
     cron_full_sync_strm |-> s._cron_full_sync_strm,
     full_sync_strm_paths |-> s._full_sync_strm_paths,
     last_sync_time |-> StrOf(s._last_sync_time),
     incremental_sync_interval |-> StrOf(s._incremental_sync_interval),
     incremental_sync_enabled |-> s._incremental_sync_enabled]

\* config.get("custom_domain") or "https://vip.123pan.cn"
DomainOrDefault(custom_domain) ==
    IF custom_domain # "" THEN custom_domain ELSE DefaultDomain

\* the assignments of init_plugin before `if config`
Preset(s, now) ==
    [s EXCEPT !._expire_time = DefaultExpire,
              !._custom_domain = DefaultDomain,
              !._last_sync_time = now,
              !._incremental_sync_interval = DefaultInterval,
              !._once_incremental_sync = FALSE]

\* the assignments of init_plugin under `if config`, defaults included
Load(s, config, now) ==
    [s EXCEPT
        !._enabled = config.enabled,
        !._once_full_sync_strm = config.once_full_sync_strm,
        !._once_incremental_sync = config.once_incremental_sync,
        !._uid = config.uid,
        !._secret_key = config.secret_key,
        !._expire_time = IF config.expire_time # None THEN IntOf(config.expire_time)
                         ELSE DefaultExpire,
        !._custom_domain = DomainOrDefault(config.custom_domain),
        !._user_rmt_mediaext = IF config.user_rmt_mediaext # <<"">>
                               THEN config.user_rmt_mediaext ELSE DefaultRmtExt,
        !._user_download_mediaext = IF config.user_download_mediaext # <<"">>
                                    THEN config.user_download_mediaext
                                    ELSE DefaultDownloadExt,
        !._timing_full_sync_strm = config.timing_full_sync_strm,
        !._full_sync_auto_download_mediainfo_enabled =
            config.full_sync_auto_download_mediainfo_enabled,
        !._cron_full_sync_strm = IF config.cron_full_sync_strm # ""
                                 THEN config.cron_full_sync_strm ELSE DefaultCron,
        !._full_sync_strm_paths = config.full_sync_strm_paths,
        !._last_sync_time = IF config.last_sync_time # None
                            THEN IntOf(config.last_sync_time) ELSE now,
        !._incremental_sync_interval =
            IF config.incremental_sync_interval # None
            THEN IntOf(config.incremental_sync_interval) ELSE DefaultInterval,
        !._incremental_sync_enabled = config.incremental_sync_enabled]

\* stop_service: the referenced scheduler loses its jobs and is forgotten
Stopped(s) == [s EXCEPT !._scheduler = NoSched]

\* a BackgroundScheduler holding one date job
Scheduler(func) == [jobs |-> {func}]

\* a variant in which both one-shot jobs go to one scheduler, for comparison
OneShotsShared(s) ==
    LET full == s._enabled /\ s._once_full_sync_strm
        incr == s._enabled /\ s._once_incremental_sync
        jobs == {f \in {"full", "incr"} : IF f = "full" THEN full ELSE incr}
    IN  [inst |-> IF full \/ incr
                  THEN [s EXCEPT !._scheduler = [jobs |-> jobs],
                                 !._once_full_sync_strm = FALSE,
                                 !._once_incremental_sync = FALSE]
                  ELSE s,
         orphaned |-> {},
         saved |-> full \/ incr]

\* a variant that leaves the incremental one-shot flag set, for comparison
OneShotsKeeping(s) ==
    LET full == s._enabled /\ s._once_full_sync_strm
        s1 == IF full
              THEN [s EXCEPT !._scheduler = Scheduler("full"),
                             !._once_full_sync_strm = FALSE]
              ELSE s
        incr == s1._enabled /\ s1._once_incremental_sync
        s2 == IF incr THEN [s1 EXCEPT !._scheduler = Scheduler("incr")] ELSE s1
    IN  [inst |-> s2,
         orphaned |-> IF full /\ incr THEN {"full"} ELSE {},
         saved |-> full \/ incr]

\* the two one-shot blocks of init_plugin; the result is the instance and the
\* jobs left in a scheduler that _scheduler no longer names
OneShots(s) ==
    LET full == s._enabled /\ s._once_full_sync_strm
        s1 == IF full
              THEN [s EXCEPT !._scheduler = Scheduler("full"),
                             !._once_full_sync_strm = FALSE]
              ELSE s
        incr == s1._enabled /\ s1._once_incremental_sync
        s2 == IF incr
              THEN [s1 EXCEPT !._scheduler = Scheduler("incr"),
                              !._once_incremental_sync = FALSE]
              ELSE s1
    IN  [inst |-> s2,
         orphaned |-> IF full /\ incr THEN {"full"} ELSE {},
         saved |-> full \/ incr]

(***************************************************************************)
(* The signed link (_generate_auth_url).  md5 is kept uninterpreted: the   *)
(* digest of a string is the tuple of the fields the string is made of.    *)
(***************************************************************************)
Nonces == {0, 2147483647}

\* a variant that knows https:// only, for comparison
HasSchemeHttpsOnly(domain) == domain = "https://vip.123pan.cn"

\* domain.startswith(('http://', 'https://'))
HasScheme(domain) == domain \in {"https://vip.123pan.cn", "http://cdn.example"}

\* domain.rstrip('/')
RStripSlash(domain) == IF domain = "cdn.example/" THEN "cdn.example" ELSE domain

\* a variant that signs the random number before the expiry, for comparison
SignSwapped(s, file_path, now, rand) ==
    IF s._uid = "" \/ s._secret_key = "" \/ s._custom_domain = ""
    THEN [ok |-> FALSE]
    ELSE LET expire_time == now + s._expire_time * 60
             request_path == unquote(<<"", s._uid>> \o file_path)
             sign == <<"md5", request_path, rand, expire_time, s._uid, s._secret_key>>
             auth_key == <<expire_time, rand, s._uid, sign>>
             stripped == RStripSlash(s._custom_domain)
             domain == IF HasScheme(stripped) THEN stripped ELSE "https://" \o stripped
         IN  [ok |-> TRUE,
              url |-> [domain |-> domain, path |-> request_path, auth_key |-> auth_key]]

\* a variant that takes the number of calls made so far for the random
\* number, for comparison
SignCounting(s, file_path, now, rand) ==
    IF s._uid = "" \/ s._secret_key = "" \/ s._custom_domain = ""
    THEN [ok |-> FALSE]
    ELSE LET expire_time == now + s._expire_time * 60
             request_path == unquote(<<"", s._uid>> \o file_path)
             count == Len(log["w1"])
             sign == <<"md5", request_path, expire_time, count, s._uid, s._secret_key>>
             auth_key == <<expire_time, count, s._uid, sign>>
             stripped == RStripSlash(s._custom_domain)
             domain == IF HasScheme(stripped) THEN stripped ELSE "https://" \o stripped
         IN  [ok |-> TRUE,
              url |-> [domain |-> domain, path |-> request_path, auth_key |-> auth_key]]

_generate_auth_url(s, file_path, now, rand) ==
    IF s._uid = "" \/ s._secret_key = "" \/ s._custom_domain = ""
    THEN [ok |-> FALSE]
    ELSE LET expire_time == now + s._expire_time * 60
             request_path == unquote(<<"", s._uid>> \o file_path)
             sign == <<"md5", request_path, expire_time, rand, s._uid, s._secret_key>>
             auth_key == <<expire_time, rand, s._uid, sign>>
             stripped == RStripSlash(s._custom_domain)
             domain == IF HasScheme(stripped) THEN stripped ELSE "https://" \o stripped
         IN  [ok |-> TRUE,
              url |-> [domain |-> domain, path |-> request_path, auth_key |-> auth_key]]

(***************************************************************************)
(* One sync pass: the locals of full_sync_strm_files and of                *)
(* incremental_sync_files.                                                 *)
(***************************************************************************)
NoPrev == [func |-> "none", clean |-> FALSE, writes |-> {}]

NoLoc ==
    [func |-> "none", mode |-> "none", delegated |-> FALSE, media_exts |-> {}, data_exts |-> {},
     paths |-> <<>>, current_time |-> 0,
     local_path |-> EmptyStr, pan_path |-> EmptyStr, parts |-> <<>>,
     current_parent_id |-> 0, it |-> NoIter, ret |-> "none",
     \* history: what full_sync_strm_files returned to a delegating caller, and
     \* the state the call found
     pass_ret |-> "none", start_lst |-> 0, start_clock |-> 0, end_clock |-> 0,
     start_stored |-> NoConfig, start_dirs |-> {}, start_files |-> <<>>,
     \* history: the remote files modified while the call was running
     touched |-> {},
     \* history: the pass this worker completed before, if neither the
     \* configuration nor the shape of the remote tree changed since
     prev |-> NoPrev]

\* set(f".{ext.strip().lower()}" for ext in text.split(','))
NormExts(tokens) == {"." \o Lower(Strip(tokens[i])) : i \in 1..Len(tokens)}

\* text.strip().split('\n'): leading and trailing blank lines are dropped
RECURSIVE DropLeadingBlank(_)
DropLeadingBlank(t) ==
    IF Len(t) > 1 /\ t[1] = BlankLine THEN DropLeadingBlank(Tail(t)) ELSE t

RECURSIVE DropTrailingBlank(_)
DropTrailingBlank(t) ==
    IF Len(t) > 1 /\ Last(t) = BlankLine
    THEN DropTrailingBlank(SubSeq(t, 1, Len(t) - 1)) ELSE t

StripLines(t) == DropTrailingBlank(DropLeadingBlank(t))

\* a variant that does not look at the credentials, for comparison
PreconditionsNoCreds(s) ==
    /\ s._enabled
    /\ s._full_sync_strm_paths # EmptyText

\* the three early returns of both passes
PreconditionsHold(s) ==
    /\ s._enabled
    /\ s._full_sync_strm_paths # EmptyText
    /\ s._uid # ""
    /\ s._secret_key # ""

\* a variant without the hand-over, for comparison
BodyModeNoFallback(func, s) == func

\* the body that runs: incremental_sync_files hands over to
\* full_sync_strm_files when _last_sync_time == 0
BodyMode(func, s) ==
    IF func = "incr" /\ s._last_sync_time = 0 THEN "full" ELSE func

\* a variant in which a pass filters by timestamp once a sync time is known,
\* for comparison
PassLocalsFiltering(s, func, mode, now) ==
    LET m == IF s._last_sync_time > 0 THEN "incr" ELSE mode
    IN  [NoLoc EXCEPT !.func = func, !.mode = m, !.delegated = (func # mode),
                      !.media_exts = NormExts(s._user_rmt_mediaext),
                      !.data_exts = NormExts(s._user_download_mediaext),
                      !.paths = StripLines(s._full_sync_strm_paths),
                      !.current_time = IF m = "incr" THEN now ELSE 0]

\* the locals of a pass when its `try` block reaches the loop over the paths
PassLocals(s, func, mode, now) ==
    [NoLoc EXCEPT !.func = func, !.mode = mode, !.delegated = (func # mode),
                  !.media_exts = NormExts(s._user_rmt_mediaext),
                  !.data_exts = NormExts(s._user_download_mediaext),
                  !.paths = StripLines(s._full_sync_strm_paths),
                  !.current_time = IF mode = "incr" THEN now ELSE 0]

\* a variant that never lowers _last_sync_time, for comparison
NewSyncTimeMonotone(l, now) ==
    LET t == IF l.mode = "full" THEN now ELSE l.current_time
    IN  IF t > self._last_sync_time THEN t ELSE self._last_sync_time

\* a variant that keeps _last_sync_time when an entry of the pass raised, for
\* comparison
NewSyncTimeUnlessFailed(l, now) ==
    IF \E i \in 1..Len(log["w1"]) : log["w1"][i].ev = "error"
    THEN self._last_sync_time
    ELSE IF l.mode = "full" THEN now ELSE l.current_time

\* a variant in which the full pass takes the time it started, for comparison
NewSyncTimeAtStart(l, now) == IF l.mode = "full" THEN l.start_clock ELSE l.current_time

\* a variant that stamps the coming second, for comparison
NewSyncTimeAhead(l, now) == IF l.mode = "full" THEN now + 1 ELSE l.current_time + 1

\* the value assigned to _last_sync_time after the loop: int(time.time()) in
\* the full pass, current_time in the incremental pass
NewSyncTime(l, now) == IF l.mode = "full" THEN now ELSE l.current_time

\* int(item.get("UpdateTime", 0))
UpdateTimeOf(item) == IF item.UpdateTime = Absent THEN 0 ELSE item.UpdateTime

\* a variant of the filter that lets the boundary through, for comparison
UnmodifiedStrict(update_time, last_sync_time) == update_time < last_sync_time

\* the incremental filter: update_time <= self._last_sync_time
Unmodified(update_time, last_sync_time) == update_time <= last_sync_time

\* a variant that puts every file directly into the local root, for comparison
LocalPathFlat(local_path, pan_path, relpath) ==
    PathParts(local_path) \o <<Last(relpath)>>

\* Path(local_path) / Path(pan_path + "/" + relpath).relative_to(pan_path)
LocalPath(local_path, pan_path, relpath) ==
    PathParts(local_path)
        \o RelativeTo(PathParts(pan_path \o relpath), PathParts(pan_path))

\* a variant that cuts the name at its first dot, for comparison
PointerPathFirstDot(file_path) ==
    Parent(file_path) \o
      << (IF Last(file_path) = "a.b.mkv" THEN "a" ELSE Stem(Last(file_path)))
            \o ".strm" >>

\* file_target_dir / (file_path.stem + ".strm")
PointerPath(file_path) ==
    Parent(file_path) \o <<Stem(Last(file_path)) \o ".strm">>

\* a variant that downloads sidecars whatever the option says, for comparison
ClassifyDownloading(s, l, name) ==
    LET file_ext == Lower(Suffix(name))
    IN  IF file_ext \in l.media_exts THEN "streamable"
        ELSE IF file_ext \in l.data_exts THEN "sidecar"
             ELSE "ignored"

\* a variant that compares the extension as it is written, for comparison
ClassifyCaseSensitive(s, l, name) ==
    LET file_ext == Suffix(name)
    IN  IF file_ext \in l.media_exts THEN "streamable"
        ELSE IF s._full_sync_auto_download_mediainfo_enabled /\ file_ext \in l.data_exts
             THEN "sidecar"
             ELSE "ignored"

\* "streamable", "sidecar" or "ignored": the if / elif / else of the loop body
Classify(s, l, name) ==
    LET file_ext == Lower(Suffix(name))
    IN  IF file_ext \in l.media_exts THEN "streamable"
        ELSE IF s._full_sync_auto_download_mediainfo_enabled /\ file_ext \in l.data_exts
             THEN "sidecar"
             ELSE "ignored"

\* a variant of the write that leaves nothing else behind, for comparison
WriteFileAlone(files, path, content) == [q \in {path} |-> content]

\* a variant that never overwrites an existing file, for comparison
WriteFileOnce(files, path, content) ==
    [q \in DOMAIN files \cup {path} |-> IF q \in DOMAIN files THEN files[q] ELSE content]

\* with open(new_file_path, "w") ... f.write(...): the file is created or
\* replaced, every other file stays
WriteFile(files, path, content) ==
    [q \in DOMAIN files \cup {path} |-> IF q = path THEN content ELSE files[q]]

\* the body of `for item in self.iterdir(...)` for one yielded item: the local
\* file system and the history after it.  fail: the write (streamable) or the
\* download (sidecar) raises.
LoopBody(s, l, item, now, rand, fail, dirs, files) ==
    IF l.mode = "incr" /\ Unmodified(UpdateTimeOf(item), s._last_sync_time)
    THEN [dirs |-> dirs, files |-> files, failed |-> FALSE,
          evs |-> <<Ev("skip", item.id, item.relpath, UpdateTimeOf(item))>>]
    ELSE
    LET file_path == LocalPath(l.local_path, l.pan_path, item.relpath)
        file_target_dir == Parent(file_path)
        dirs1 == Mkdirs(dirs, file_target_dir)
        kind == Classify(s, l, item.FileName)
        seen == <<Ev("entry", item.id, item.relpath, UpdateTimeOf(item)),
                  Ev("mkdir", item.id, file_target_dir, 0)>>
    IN  CASE kind = "streamable" ->
               LET new_file_path == PointerPath(file_path)
                   full_path == StripSlash(l.pan_path \o item.relpath)
                   signed == _generate_auth_url(s, quote(full_path), now, rand)
               IN  IF ~signed.ok \/ fail
                   THEN [dirs |-> dirs1, files |-> files, failed |-> TRUE,
                         evs |-> Append(seen, Ev("error", item.id, new_file_path, 0))]
                   ELSE [dirs |-> dirs1, failed |-> FALSE,
                         files |-> WriteFile(files, new_file_path,
                                             [kind |-> "strm", src |-> item.id,
                                              domain |-> signed.url.domain,
                                              path |-> signed.url.path]),
                         evs |-> Append(seen, Ev("write", item.id, new_file_path, 0))]
          [] kind = "sidecar" ->
               LET new_file_path == file_target_dir \o <<item.FileName>>
                   asked == Append(seen, Ev("download_info", item.id, new_file_path, 0))
               IN  IF fail
                   THEN [dirs |-> dirs1, files |-> files, failed |-> TRUE,
                         evs |-> Append(asked, Ev("error", item.id, new_file_path, 0))]
                   ELSE [dirs |-> dirs1, failed |-> FALSE,
                         files |-> WriteFile(files, new_file_path,
                                             [kind |-> "data", src |-> item.id,
                                              domain |-> "", path |-> <<>>]),
                         evs |-> Append(asked, Ev("write", item.id, new_file_path, 0))]
          [] OTHER ->
               [dirs |-> dirs1, files |-> files, failed |-> FALSE,
                evs |-> Append(seen, Ev("ignore", item.id, file_path, 0))]

\* a variant in which a raising entry ends the pair, for comparison
AfterBodyAbort(l, g, failed) ==
    IF failed
    THEN [label |-> "pairs", loc |-> [l EXCEPT !.paths = Tail(@), !.it = NoIter]]
    ELSE [label |-> "iter", loc |-> [l EXCEPT !.it = StepItem(g)]]

\* where the pass goes on after the loop body, raised or not: the per-entry
\* handler logs and continues with the next item of the generator
AfterBody(l, g, failed) == [label |-> "iter", loc |-> [l EXCEPT !.it = StepItem(g)]]

(***************************************************************************)
(* Initial state: a constructed plugin the host has not initialised, an    *)
(* empty local file system, and the remote drive                           *)
(*     /media/movies/{A.mkv, A.nfo, sub/B 1.MKV}   /media/tv/C.mp4         *)
(***************************************************************************)
Node(parent, name, isdir) == [parent |-> parent, name |-> name, isdir |-> isdir]

MediaDrive ==
    << Node(0, "media", TRUE), Node(1, "movies", TRUE), Node(1, "tv", TRUE),
       Node(2, "A.mkv", FALSE), Node(2, "A.nfo", FALSE), Node(2, "sub", TRUE),
       Node(6, "B 1.MKV", FALSE), Node(3, "C.mp4", FALSE) >>

MediaTimes ==
    [i \in 1..Len(MediaDrive) |->
        CASE i = 4 -> 1
          [] i = 5 -> 2
          [] i = 7 -> 3
          [] OTHER -> Absent]

Idle ==
    /\ pc = [w \in Workers |-> "idle"]
    /\ loc = [w \in Workers |-> NoLoc]
    /\ log = [w \in Workers |-> <<>>]
    /\ events = 0
    /\ inits = 0

Init ==
    /\ drive = MediaDrive
    /\ mtime = MediaTimes
    /\ clock = InitClock
    /\ self = ClassAttributes
    /\ stored = NoConfig
    /\ orphans = {}
    /\ localDirs = {<<"/">>}
    /\ localFiles = <<>>
    /\ Idle

(***************************************************************************)
(* The environment: the clock, the remote drive's owner, the host.         *)
(***************************************************************************)
\* no pass is running
Quiet == \A w \in Workers : pc[w] = "idle"

Tick ==
    /\ clock < MaxClock
    /\ clock' = clock + 1
    /\ UNCHANGED <<drive, mtime, self, stored, orphans, localDirs, localFiles,
                   pc, loc, log, events, inits>>

\* the remote file users edit in this model: A.mkv
Edited == {4}

\* a remote file is modified: its UpdateTime becomes the current time
RemoteModify(f) ==
    /\ events < MaxEvents
    /\ IsFile(drive, f)
    /\ mtime' = [mtime EXCEPT ![f] = clock]
    /\ events' = events + 1
    /\ loc' = [w \in Workers |->
                 IF pc[w] \in {"idle", "done"} THEN loc[w]
                 ELSE [loc[w] EXCEPT !.touched = @ \cup {f}]]
    /\ UNCHANGED <<drive, clock, self, stored, orphans, localDirs, localFiles,
                   pc, log, inits>>

\* the remote files users delete in this model: A.nfo
Removed == {5}

\* the names remote files are renamed to in this model
Renamed == [n \in {"A.mkv"} |-> "a.b.mkv"]

\* a remote file is deleted: no listing shows it any more
RemoteDelete(f) ==
    /\ Quiet
    /\ events < MaxEvents
    /\ IsFile(drive, f) /\ drive[f].parent # Absent
    /\ drive' = [drive EXCEPT ![f].parent = Absent]
    /\ events' = events + 1
    /\ loc' = [w \in Workers |-> [loc[w] EXCEPT !.prev = NoPrev]]
    /\ UNCHANGED <<mtime, clock, self, stored, orphans, localDirs, localFiles,
                   pc, log, inits>>

\* a remote file is renamed in place
RemoteRename(f) ==
    /\ Quiet
    /\ events < MaxEvents
    /\ IsFile(drive, f) /\ drive[f].parent # Absent
    /\ drive[f].name \in DOMAIN Renamed
    /\ drive' = [drive EXCEPT ![f].name = Renamed[drive[f].name]]
    /\ events' = events + 1
    /\ loc' = [w \in Workers |-> [loc[w] EXCEPT !.prev = NoPrev]]
    /\ UNCHANGED <<mtime, clock, self, stored, orphans, localDirs, localFiles,
                   pc, log, inits>>

\* init_plugin(config); __check_python_version() holds on the host's Python
init_plugin(config) ==
    /\ Quiet
    /\ inits < MaxInits
    /\ inits' = inits + 1
    /\ LET preset == Preset(self, clock)
           loaded == IF config # NoConfig THEN Load(preset, config, clock) ELSE preset
           shots == OneShots(Stopped(loaded))
       IN  /\ self' = shots.inst
           /\ stored' = IF shots.saved THEN ConfigOf(shots.inst)
                        ELSE IF config # NoConfig THEN ConfigOf(loaded)
                        ELSE stored
           /\ orphans' = orphans \cup shots.orphaned
    /\ loc' = [w \in Workers |-> [loc[w] EXCEPT !.prev = NoPrev]]
    /\ UNCHANGED <<drive, mtime, clock, localDirs, localFiles, pc, log, events>>

(***************************************************************************)
(* The two entry points.                                                   *)
(***************************************************************************)
\* the start of full_sync_strm_files (func = "full") or incremental_sync_files
\* (func = "incr") up to the loop over the path pairs
Enter(w, func, s) ==
    /\ pc[w] = "idle"
    /\ log' = [log EXCEPT ![w] = <<Ev("call", 0, <<func>>, s._last_sync_time)>>]
    /\ LET found == [start_lst |-> s._last_sync_time, start_clock |-> clock,
                     start_stored |-> stored, start_dirs |-> localDirs,
                     start_files |-> localFiles]
           l == IF PreconditionsHold(s)
                THEN PassLocals(s, func, BodyMode(func, s), clock)
                ELSE [NoLoc EXCEPT !.func = func, !.ret = "None"]
       IN  /\ pc' = [pc EXCEPT ![w] = IF PreconditionsHold(s) THEN "pairs" ELSE "done"]
           /\ loc' = [loc EXCEPT ![w] = [l EXCEPT !.start_lst = found.start_lst,
                                                  !.start_clock = found.start_clock,
                                                  !.start_stored = found.start_stored,
                                                  !.start_dirs = found.start_dirs,
                                                  !.start_files = found.start_files,
                                                  !.prev = IF func = "full"
                                                           THEN loc[w].prev
                                                           ELSE NoPrev]]

full_sync_strm_files(w) ==
    /\ Enter(w, "full", self)
    /\ UNCHANGED <<drive, mtime, clock, self, stored, orphans, localDirs,
                   localFiles, events, inits>>

incremental_sync_files(w) ==
    /\ Enter(w, "incr", self)
    /\ UNCHANGED <<drive, mtime, clock, self, stored, orphans, localDirs,
                   localFiles, events, inits>>

RefJobs(s) == IF s._scheduler = NoSched THEN {} ELSE s._scheduler.jobs

\* a one-shot date job of a running scheduler fires on a worker thread
RunJob(w) ==
    \/ \E job \in RefJobs(self) :
          /\ Enter(w, job, self)
          /\ self' = [self EXCEPT !._scheduler = [jobs |-> RefJobs(self) \ {job}]]
          /\ UNCHANGED <<drive, mtime, clock, stored, orphans, localDirs,
                         localFiles, events, inits>>
    \/ \E job \in orphans :
          /\ Enter(w, job, self)
          /\ orphans' = orphans \ {job}
          /\ UNCHANGED <<drive, mtime, clock, self, stored, localDirs,
                         localFiles, events, inits>>

(***************************************************************************)
(* The loop over the path pairs.                                           *)
(***************************************************************************)
Goto(w, label, l) ==
    /\ pc' = [pc EXCEPT ![w] = label]
    /\ loc' = [loc EXCEPT ![w] = l]

Logged(w, evs) == log' = [log EXCEPT ![w] = @ \o evs]

\* `for path in paths`: one iteration up to the directory lookup.  fail: the
\* creation of the local root raises (outside the per-pair try).
NextPair(w) ==
    /\ pc[w] = "pairs"
    /\ LET l == loc[w]
           path == Head(l.paths)
           rest == [l EXCEPT !.paths = Tail(@)]
       IN  IF l.paths = <<>>
           THEN /\ Goto(w, "finish", l)
                /\ UNCHANGED <<log, localDirs, events>>
           ELSE IF path = BlankLine \/ Len(path) # 2
           THEN /\ Goto(w, "pairs", rest)
                /\ Logged(w, <<Ev("bad_line", 0, path[1], Len(path))>>)
                /\ UNCHANGED <<localDirs, events>>
           ELSE LET local_dir == PathParts(path[1])
                    pan_path == StripSlash(path[2])
                IN  \E fail \in BOOLEAN :
                      /\ fail => events < MaxEvents /\ local_dir \notin localDirs
                      /\ events' = IF fail THEN events + 1 ELSE events
                      /\ IF fail
                         THEN /\ Goto(w, "done",
                                      [l EXCEPT !.pass_ret = "False",
                                                !.ret = IF l.delegated THEN "None"
                                                        ELSE "False",
                                                !.end_clock = clock])
                              /\ Logged(w, <<Ev("top_error", 0, path[2], 0)>>)
                              /\ UNCHANGED localDirs
                         ELSE /\ localDirs' = Mkdirs(localDirs, local_dir)
                              /\ IF pan_path = EmptyStr
                                 THEN /\ Goto(w, "pairs", rest)
                                      /\ Logged(w, <<Ev("bad_line", 0, path[2], 2)>>)
                                 ELSE /\ Goto(w, "resolve",
                                              [l EXCEPT !.local_path = path[1],
                                                        !.pan_path = pan_path,
                                                        !.parts = NonEmptySegs(pan_path),
                                                        !.current_parent_id = 0])
                                      /\ Logged(w, <<Ev("pair", 0, path[2], 0)>>)
    /\ UNCHANGED <<drive, mtime, clock, self, stored, orphans, localFiles,
                   inits>>

\* a variant in which a failing pair ends the loop, for comparison
PairErrorAbort(w, why) ==
    /\ Goto(w, "finish", [loc[w] EXCEPT !.paths = <<>>, !.it = NoIter])
    /\ Logged(w, <<Ev("pair_error", 0, <<why>>, 0)>>)

\* a variant in which the traversal goes on after a failed listing, for
\* comparison
PairErrorResume(w, why) ==
    /\ Goto(w, IF why = "list" /\ pc[w] = "iter" THEN "iter" ELSE "pairs",
            IF why = "list" /\ pc[w] = "iter" THEN loc[w]
            ELSE [loc[w] EXCEPT !.paths = Tail(@), !.it = NoIter])
    /\ Logged(w, <<Ev("pair_error", 0, <<why>>, 0)>>)

\* the handler of the per-pair try: log and `continue`
PairError(w, why) ==
    /\ Goto(w, "pairs", [loc[w] EXCEPT !.paths = Tail(@), !.it = NoIter])
    /\ Logged(w, <<Ev("pair_error", 0, <<why>>, 0)>>)

\* the first-page match of one path segment: the id found, or 0
Lookup(resp, part) ==
    LET hits == SelectSeq(resp.InfoList,
                          LAMBDA item : item.FileName = part /\ item.Type # 0)
    IN  IF hits = <<>> THEN 0 ELSE Head(hits).FileId

\* `for part in pan_path_parts`: one listing and the search in it.  fail: the
\* listing is an error response (check_response raises).
ResolvePart(w) ==
    /\ pc[w] = "resolve"
    /\ LET l == loc[w]
           part == Head(l.parts)
           resp == FsList(drive, mtime, l.current_parent_id, 0)
           found == Lookup(resp, part)
       IN  \E fail \in BOOLEAN :
             /\ fail => events < MaxEvents
             /\ events' = IF fail THEN events + 1 ELSE events
             /\ IF fail THEN PairError(w, "list")
                ELSE IF found = 0 THEN PairError(w, "not_found")
                ELSE /\ Logged(w, <<Ev("found", found, <<part>>, 0)>>)
                     /\ IF Len(l.parts) > 1
                        THEN Goto(w, "resolve", [l EXCEPT !.parts = Tail(@),
                                                          !.current_parent_id = found])
                        ELSE Goto(w, "iter", [l EXCEPT !.parts = <<>>,
                                                       !.current_parent_id = found,
                                                       !.it = iterdir(found, TRUE)])
    /\ UNCHANGED <<drive, mtime, clock, self, stored, orphans, localDirs,
                   localFiles, inits>>

\* iterdir asks for the next page (of the next directory when one is done).
\* fail: the listing is an error response, iterdir raises.
IterFetch(w) ==
    /\ pc[w] = "iter"
    /\ loc[w].it.items = <<>>
    /\ ~Exhausted(loc[w].it)
    /\ LET g == Dequeue(loc[w].it)
           resp == FsList(drive, mtime, g.cur_id, g.next)
       IN  \E fail \in BOOLEAN :
             /\ fail => events < MaxEvents
             /\ events' = IF fail THEN events + 1 ELSE events
             /\ IF fail THEN PairError(w, "list")
                ELSE /\ Goto(w, "iter", [loc[w] EXCEPT !.it = TakePage(g, resp)])
                     /\ Logged(w, <<Ev("list", g.cur_id, g.cur_path, g.next)>>)
    /\ UNCHANGED <<drive, mtime, clock, self, stored, orphans, localDirs,
                   localFiles, inits>>

\* iterdir handles one item of the page; a yielded item runs the loop body
IterItem(w) ==
    /\ pc[w] = "iter"
    /\ loc[w].it.items # <<>>
    /\ LET l == loc[w]
           g == l.it
       IN  IF ~Yields(g)
           THEN /\ Goto(w, "iter", [l EXCEPT !.it = StepItem(g)])
                /\ UNCHANGED <<log, localDirs, localFiles, events>>
           ELSE \E fail \in BOOLEAN, rand \in Nonces :
                  LET kind == IF l.mode = "incr"
                                   /\ Unmodified(UpdateTimeOf(Yielded(g)),
                                                 self._last_sync_time)
                              THEN "skipped"
                              ELSE Classify(self, l, Yielded(g).FileName)
                      out == LoopBody(self, l, Yielded(g), clock, rand, fail,
                                      localDirs, localFiles)
                      next == AfterBody(l, g, out.failed)
                  IN  /\ fail => events < MaxEvents /\ kind \in {"streamable", "sidecar"}
                      /\ kind # "streamable" => rand = 0
                      /\ events' = IF fail THEN events + 1 ELSE events
                      /\ localDirs' = out.dirs
                      /\ localFiles' = out.files
                      /\ Goto(w, next.label, next.loc)
                      /\ Logged(w, out.evs)
    /\ UNCHANGED <<drive, mtime, clock, self, stored, orphans, inits>>

\* the traversal of the pair is over: on to the next pair
PairDone(w) ==
    /\ pc[w] = "iter"
    /\ Exhausted(loc[w].it)
    /\ Goto(w, "pairs", [loc[w] EXCEPT !.paths = Tail(@), !.it = NoIter])
    /\ Logged(w, <<Ev("pair_done", 0, loc[w].pan_path, 0)>>)
    /\ UNCHANGED <<drive, mtime, clock, self, stored, orphans, localDirs,
                   localFiles, events, inits>>

\* after the loop: the timestamp, __update_config, the return value.
\* fail: update_config raises (the assignment before it has taken place).
Finish(w) ==
    /\ pc[w] = "finish"
    /\ LET l == loc[w]
           after == [self EXCEPT !._last_sync_time = NewSyncTime(l, clock)]
       IN  \E fail \in BOOLEAN :
             /\ fail => events < MaxEvents
             /\ events' = IF fail THEN events + 1 ELSE events
             /\ self' = after
             /\ stored' = IF fail THEN stored ELSE ConfigOf(after)
             /\ Goto(w, "done",
                     [l EXCEPT !.pass_ret = IF fail THEN "False" ELSE "True",
                               !.ret = IF l.delegated THEN "None"
                                       ELSE IF fail THEN "False" ELSE "True",
                               !.end_clock = clock])
             /\ Logged(w, <<Ev(IF fail THEN "top_error" ELSE "completed", 0, <<>>,
                               after._last_sync_time)>>)
    /\ UNCHANGED <<drive, mtime, clock, orphans, localDirs, localFiles, inits>>

\* the caller has the return value; the worker is free again
Return(w) ==
    /\ pc[w] = "done"
    /\ pc' = [pc EXCEPT ![w] = "idle"]
    /\ loc' = [loc EXCEPT ![w] =
                 [NoLoc EXCEPT !.prev =
                    IF /\ loc[w].pass_ret = "True"
                       /\ loc[w].func = "full"
                       /\ \A i \in 1..Len(log[w]) :
                            log[w][i].ev \notin {"error", "pair_error"}
                    THEN [func |-> loc[w].func,
                          clean |-> TRUE,
                          writes |-> {log[w][i].path :
                                        i \in {j \in 1..Len(log[w]) :
                                                 log[w][j].ev = "write"}}]
                    ELSE NoPrev]]
    /\ log' = [log EXCEPT ![w] = <<>>]
    /\ UNCHANGED <<drive, mtime, clock, self, stored, orphans, localDirs,
                   localFiles, events, inits>>

Pass(w) ==
    \/ full_sync_strm_files(w)
    \/ incremental_sync_files(w)
    \/ RunJob(w)
    \/ NextPair(w)
    \/ ResolvePart(w)
    \/ IterFetch(w)
    \/ IterItem(w)
    \/ PairDone(w)
    \/ Finish(w)
    \/ Return(w)

Environment ==
    \/ Tick
    \/ \E f \in Edited : RemoteModify(f)

\* the host loads the plugin with the stored configuration, or the user saves one
Configure == \E config \in UserConfigs \cup {stored} : init_plugin(config)

\* the remote tree changes: a file is deleted or renamed
RemoteChange ==
    \/ \E f \in Removed : RemoteDelete(f)
    \/ \E f \in Edited : RemoteRename(f)

\* Passes are serialised (one worker runs them all); the configuration and the
\* shape of the remote tree change between passes only.
Next == Pass("w1") \/ Environment \/ Configure \/ RemoteChange

Spec == Init /\ [][Next]_vars

(***************************************************************************)
(* iterdir on its own: a caller that only consumes the generator, over     *)
(* every ordered tree of at most MaxNodes nodes.  The nodes are numbered   *)
(* in listing order, so a parent has a smaller id than its children.       *)
(***************************************************************************)
NodeNames == <<"a", "b", "c", "d", "e", "f">>

TreesOf(n) ==
    LET shapes == {pf \in [1..n -> 0..(n - 1)] : \A i \in 1..n : pf[i] < i}
        raw == {[i \in 1..n |-> Node(pf[i], NodeNames[i], tf[i])] :
                    pf \in shapes, tf \in [1..n -> BOOLEAN]}
    IN  {d \in raw : \A i \in 1..n : d[i].parent # 0 => d[d[i].parent].isdir}

Trees == UNION {TreesOf(n) : n \in 0..MaxNodes}

InitIter ==
    /\ drive \in Trees
    /\ mtime = [i \in 1..Len(drive) |-> Absent]
    /\ clock = InitClock
    /\ self = ClassAttributes
    /\ stored = NoConfig
    /\ orphans = {}
    /\ localDirs = {<<"/">>}
    /\ localFiles = <<>>
    /\ \E root \in {0} \cup DirIds(drive), only_file \in BOOLEAN :
          /\ pc = [w \in Workers |-> IF w = "w1" THEN "traverse" ELSE "idle"]
          /\ loc = [w \in Workers |->
                      IF w = "w1"
                      THEN [NoLoc EXCEPT !.current_parent_id = root,
                                         !.it = iterdir(root, only_file)]
                      ELSE NoLoc]
    /\ log = [w \in Workers |-> <<>>]
    /\ events = 0
    /\ inits = 0

\* next(): iterdir asks for a page.  fail: check_response raises out of iterdir
TraverseFetch(w) ==
    /\ pc[w] = "traverse"
    /\ loc[w].it.items = <<>>
    /\ ~Exhausted(loc[w].it)
    /\ LET g == Dequeue(loc[w].it)
           resp == FsList(drive, mtime, g.cur_id, g.next)
       IN  \E fail \in BOOLEAN :
             /\ fail => events < MaxEvents
             /\ events' = IF fail THEN events + 1 ELSE events
             /\ IF fail
                THEN /\ Goto(w, "raised", loc[w])
                     /\ Logged(w, <<Ev("raise", g.cur_id, g.cur_path, g.next)>>)
                ELSE /\ Goto(w, "traverse", [loc[w] EXCEPT !.it = TakePage(g, resp)])
                     /\ Logged(w, <<Ev("list", g.cur_id, g.cur_path, g.next)>>)
    /\ UNCHANGED <<drive, mtime, clock, self, stored, orphans, localDirs,
                   localFiles, inits>>

\* next(): iterdir handles one item of the page and yields it, or goes on
TraverseItem(w) ==
    /\ pc[w] = "traverse"
    /\ loc[w].it.items # <<>>
    /\ LET g == loc[w].it
       IN  /\ Goto(w, "traverse", [loc[w] EXCEPT !.it = StepItem(g)])
           /\ IF Yields(g)
              THEN Logged(w, <<Ev("yield", Yielded(g).id, Yielded(g).relpath,
                                  IF Yielded(g).is_dir THEN 1 ELSE 0)>>)
              ELSE UNCHANGED log
    /\ UNCHANGED <<drive, mtime, clock, self, stored, orphans, localDirs,
                   localFiles, events, inits>>

\* next(): the queue is empty, StopIteration
TraverseStop(w) ==
    /\ pc[w] = "traverse"
    /\ Exhausted(loc[w].it)
    /\ Goto(w, "stopped", loc[w])
    /\ UNCHANGED <<drive, mtime, clock, self, stored, orphans, localDirs,
                   localFiles, log, events, inits>>

NextIter == TraverseFetch("w1") \/ TraverseItem("w1") \/ TraverseStop("w1")

SpecIter == InitIter /\ [][NextIter]_vars

(***************************************************************************)
(* Properties of the traversal (SpecIter).                                 *)
(***************************************************************************)
RECURSIVE NamesFrom(_, _, _)
\* the names on the path from node root (exclusive) down to node i, read off
\* the parent pointers of the tree; <<>> when i is not below root
NamesFrom(d, root, i) ==
    IF i <= 0 THEN <<>>
    ELSE IF d[i].parent = root THEN <<d[i].name>>
    ELSE LET up == NamesFrom(d, root, d[i].parent)
         IN  IF up = <<>> THEN <<>> ELSE Append(up, d[i].name)

\* the files and directories below root
Below(d, root) == {i \in 1..Len(d) : NamesFrom(d, root, i) # <<>>}

YieldEvents(w) == SelectSeq(log[w], LAMBDA e : e.ev = "yield")

\* C1: iterdir(root, only_file=False) yields nothing but entries below the
\* root, none of them twice, each with relpath equal to the names on the path
\* from the root to the entry joined with '/' (no leading slash); when the
\* generator is exhausted every file and every directory below the root has
\* been yielded, and the root has not.
C1_BfsCoverage ==
    \A w \in Workers :
      (pc[w] \in {"traverse", "stopped", "raised"} /\ ~loc[w].it.only_file) =>
        LET ys == YieldEvents(w)
            root == loc[w].current_parent_id
        IN  /\ \A i, j \in 1..Len(ys) : ys[i].id = ys[j].id => i = j
            /\ \A i \in 1..Len(ys) :
                  /\ ys[i].id \in Below(drive, root)
                  /\ ys[i].id # root
                  /\ ys[i].path = NamesFrom(drive, root, ys[i].id)
                  /\ Head(ys[i].path) # ""
                  /\ (ys[i].n = 1) <=> drive[ys[i].id].isdir
            /\ pc[w] = "stopped" =>
                  {ys[i].id : i \in 1..Len(ys)} = Below(drive, root)

\* a traversal from a directory that is not the drive's root came to its end
\* having yielded a directory, a file two levels down, and left nodes outside
C1_Witness ==
    \E w \in Workers :
      /\ pc[w] = "stopped" /\ ~loc[w].it.only_file
      /\ loc[w].current_parent_id # 0
      /\ Below(drive, loc[w].current_parent_id) # 1..Len(drive)
      /\ \E i, j \in 1..Len(YieldEvents(w)) :
            /\ YieldEvents(w)[i].n = 1
            /\ YieldEvents(w)[j].n = 0 /\ Len(YieldEvents(w)[j].path) = 2

(***************************************************************************)
(* Properties of the sync passes (Spec).  The history of a call is read    *)
(* off log[w]; the remote tree is read off drive and mtime directly.       *)
(***************************************************************************)
\* int(UpdateTime) of a remote file as the API reports it now, 0 when absent
RemoteTime(f) == IF mtime[f] = Absent THEN 0 ELSE mtime[f]

Kinds(w, kinds) == {i \in 1..Len(log[w]) : log[w][i].ev \in kinds}

\* worker w is inside a call whose preconditions held
InPass(w) == loc[w].mode # "none"

\* the call of worker w has returned to its caller
Returned(w) == pc[w] = "done"

\* C2: in an incremental pass started with last_sync_time = T > 0 a yielded
\* entry is processed if and only if its modified time (0 when absent) is
\* strictly greater than T, and entries with modified time <= T cause no
\* local directory creation, write or download.
C2_IncrementalFilter ==
    \A w \in Workers :
      loc[w].mode = "incr" =>
        LET T == loc[w].start_lst
        IN  /\ T > 0
            /\ \A i \in Kinds(w, {"entry", "skip"}) :
                  /\ (log[w][i].ev = "entry") <=> (log[w][i].n > T)
                  /\ (~Returned(w) /\ log[w][i].id \notin loc[w].touched) =>
                        log[w][i].n = RemoteTime(log[w][i].id)
            /\ \A i \in Kinds(w, {"mkdir", "write", "download_info", "error", "ignore"}) :
                  \E j \in Kinds(w, {"entry"}) :
                    j < i /\ log[w][j].id = log[w][i].id /\ log[w][j].n > T

\* the example of the filter: with T = 2 and the files of /media/movies
\* modified at 1, 2 and 3, a finished incremental pass processed exactly the
\* file modified at 3
C2_Witness ==
    \E w \in Workers :
      /\ Returned(w) /\ loc[w].mode = "incr" /\ loc[w].pass_ret = "True"
      /\ loc[w].start_lst = 2 /\ loc[w].touched = {}
      /\ {RemoteTime(f) : f \in {4, 5, 7}} = {1, 2, 3}
      /\ {log[w][i].id : i \in Kinds(w, {"skip"})} = {4, 5}
      /\ {log[w][i].id : i \in Kinds(w, {"entry"})} = {7}
      /\ {log[w][i].id : i \in Kinds(w, {"write"})} = {7}

\* the configured lines that name a local root and a non-empty remote path
IsPairLine(line) ==
    line # BlankLine /\ Len(line) = 2 /\ StripSlash(line[2]) # EmptyStr

RECURSIVE WalkDown(_, _, _)
\* the directory the names of parts lead to from directory id; -1 when a name
\* is not a directory there
WalkDown(d, id, parts) ==
    IF parts = <<>> THEN id
    ELSE LET hits == {i \in 1..Len(d) :
                        d[i].parent = id /\ d[i].isdir /\ d[i].name = Head(parts)}
         IN  IF hits = {} THEN -1
             ELSE WalkDown(d, CHOOSE i \in hits : TRUE, Tail(parts))

\* the local files a full pass over configuration s and tree d writes when
\* nothing raises: a pointer file per streamable file, the sidecar itself when
\* sidecar download is on
FullOutcome(s, d) ==
    LET lines == StripLines(s._full_sync_strm_paths)
        exts == PassLocals(s, "full", "full", 0)
        target(line, root, f) ==
            LET names == NamesFrom(d, root, f)
                dir == PathParts(line[1]) \o SubSeq(names, 1, Len(names) - 1)
            IN  IF Classify(s, exts, d[f].name) = "streamable"
                THEN dir \o <<Stem(d[f].name) \o ".strm">>
                ELSE dir \o <<d[f].name>>
        of(line) ==
            LET root == WalkDown(d, 0, NonEmptySegs(StripSlash(line[2])))
            IN  IF root = -1 THEN {}
                ELSE {target(line, root, f) :
                        f \in {g \in Below(d, root) :
                                 /\ ~d[g].isdir
                                 /\ Classify(s, exts, d[g].name) # "ignored"}}
    IN  UNION {of(lines[k]) : k \in {j \in 1..Len(lines) : IsPairLine(lines[j])}}

\* nothing raised in the call of worker w: no entry, no pair and not the pass
NothingRaised(w) == Kinds(w, {"error", "top_error", "pair_error"}) = {}

\* C3: a call of incremental_sync_files that finds last_sync_time == 0 with
\* the preconditions holding runs the body of full_sync_strm_files: no entry
\* is filtered by its timestamp, and when the call has returned it has
\* written the files, and made the last_sync_time update (the clock at
\* completion, in memory and persisted), that a direct full_sync_strm_files
\* call makes on the same tree and configuration.
C3_FirstRunFallback ==
    \A w \in Workers :
      /\ (loc[w].func = "incr" /\ loc[w].start_lst = 0 /\ InPass(w)) =>
            /\ loc[w].mode = "full" /\ loc[w].delegated
            /\ Kinds(w, {"skip"}) = {}
      /\ (Returned(w) /\ InPass(w) /\ loc[w].pass_ret = "True"
            /\ (loc[w].func = "full" \/ loc[w].start_lst = 0)) =>
            /\ self._last_sync_time = loc[w].end_clock
            /\ stored.last_sync_time = StrOf(loc[w].end_clock)
            /\ NothingRaised(w) =>
                  /\ {log[w][i].path : i \in Kinds(w, {"write"})} = FullOutcome(self, drive)
                  /\ FullOutcome(self, drive) \subseteq DOMAIN localFiles

\* a first incremental call returned after the clock moved during it, having
\* written both pointers of the tree, A.mkv's modified before the call began
C3_Witness ==
    \E w \in Workers :
      /\ Returned(w) /\ loc[w].func = "incr" /\ loc[w].start_lst = 0
      /\ loc[w].pass_ret = "True" /\ NothingRaised(w)
      /\ loc[w].end_clock > loc[w].start_clock
      /\ <<"/", "local", "movies", "sub", "B 1.strm">> \in DOMAIN localFiles
      /\ mtime[4] < loc[w].start_clock
      /\ Cardinality(FullOutcome(self, drive)) = 2

\* the part of the history that belongs to the pair begun at position i
SegmentOf(w, i) ==
    LET later == {j \in Kinds(w, {"pair", "bad_line", "completed", "top_error"}) : j > i}
    IN  i..(IF later = {} THEN Len(log[w])
            ELSE (CHOOSE j \in later : \A k \in later : j <= k) - 1)

\* C4: in a full and in an incremental pass an entry whose processing raises
\* does not end the pair: in every pair whose resolution and traversal did
\* not fail, every file below the resolved directory was yielded to the loop
\* body, every processed entry that did not itself raise and was not ignored
\* was written and its file is there, and a pass that reached its end
\* returned True.
C4_EntryIsolation ==
    \A w \in Workers :
      (Returned(w) /\ InPass(w)) =>
        /\ \A i \in Kinds(w, {"pair"}) :
              LET seg == SegmentOf(w, i)
                  at(kinds) == seg \cap Kinds(w, kinds)
                  ids(kinds) == {log[w][k].id : k \in at(kinds)}
              IN  at({"pair_error"}) = {} =>
                    /\ at({"list"}) # {}
                    /\ LET first == CHOOSE k \in at({"list"}) :
                                        \A m \in at({"list"}) : k <= m
                           root == log[w][first].id
                       IN  {f \in Below(drive, root) : ~drive[f].isdir}
                             = ids({"entry", "skip"})
                    /\ ids({"entry"}) \ (ids({"error"}) \cup ids({"ignore"}))
                          \subseteq ids({"write"})
                    /\ \A k \in at({"write"}) :
                          /\ log[w][k].path \in DOMAIN localFiles
                          /\ localFiles[log[w][k].path].src = log[w][k].id
        /\ Last(log[w]).ev = "completed" => loc[w].pass_ret = "True"
        /\ (Last(log[w]).ev = "completed" /\ ~loc[w].delegated) => loc[w].ret = "True"

\* a pass returned True in which the processing of one file of a pair raised
\* and a later file of the same pair was written
C4_Witness ==
    \E w \in Workers :
      /\ Returned(w) /\ loc[w].ret = "True"
      /\ \E i \in Kinds(w, {"error"}), j \in Kinds(w, {"write"}) :
            /\ i < j
            /\ log[w][i].id # log[w][j].id
            /\ Kinds(w, {"pair"}) \cap i..j = {}
            /\ log[w][j].path \in DOMAIN localFiles

\* the history records of the configured lines, in the order they were begun
LineEvents(w) == SelectSeq(log[w], LAMBDA e : e.ev \in {"pair", "bad_line"})

\* C5: in full_sync_strm_files and incremental_sync_files a pair whose
\* resolution or traversal fails does not end the loop: the lines are begun
\* in configuration order, a pass that reached its end has begun every
\* configured line, and every file the pass wrote is still there.
C5_PairIsolation ==
    \A w \in Workers :
      InPass(w) =>
        LET lines == StripLines(self._full_sync_strm_paths)
            begun == LineEvents(w)
        IN  /\ Len(begun) <= Len(lines)
            /\ \A k \in 1..Len(begun) :
                  IF IsPairLine(lines[k])
                  THEN begun[k].ev = "pair" /\ begun[k].path = lines[k][2]
                  ELSE begun[k].ev = "bad_line"
            /\ (Returned(w) /\ Last(log[w]).ev = "completed") =>
                  /\ Len(begun) = Len(lines)
                  /\ loc[w].pass_ret = "True"
            /\ \A i \in Kinds(w, {"pair_error"}) :
                  i = Len(log[w]) => ~Returned(w)
            /\ \A i \in Kinds(w, {"write"}) :
                  /\ log[w][i].path \in DOMAIN localFiles
                  /\ localFiles[log[w][i].path].src = log[w][i].id

\* a pass reached its end in which a file was written, then the traversal of
\* that pair failed, and an entry of a later pair was handled
C5_Witness ==
    \E w \in Workers :
      /\ Returned(w) /\ Last(log[w]).ev = "completed"
      /\ \E i \in Kinds(w, {"write"}), j \in Kinds(w, {"pair_error"}),
            k \in Kinds(w, {"entry"}) :
            /\ i < j /\ j < k
            /\ log[w][j].path = <<"list">>
            /\ Kinds(w, {"pair"}) \cap i..j = {}
            /\ Kinds(w, {"pair"}) \cap j..k # {}
            /\ log[w][i].path \in DOMAIN localFiles
            /\ <<"/", "local", "tv">> \in localDirs

\* worker w is inside a call, or the call has returned and the caller holds
\* the result
InCall(w) == loc[w].func # "none"

\* the call of worker w made no remote API call and left the local file
\* system, last_sync_time and the persisted configuration as it found them
NoEffect(w) ==
    /\ Len(log[w]) = 1 /\ log[w][1].ev = "call"
    /\ Kinds(w, {"list", "found", "pair", "download_info"}) = {}
    /\ localDirs = loc[w].start_dirs
    /\ localFiles = loc[w].start_files
    /\ self._last_sync_time = loc[w].start_lst
    /\ stored = loc[w].start_stored

\* C8: when the plugin is disabled, or no path-pair text is configured, or
\* uid or secret_key is missing, full_sync_strm_files and
\* incremental_sync_files return at once without any side effect: no remote
\* API call, no local directory or file created, last_sync_time and the
\* persisted configuration unchanged.
C8_PreconditionStop ==
    \A w \in Workers :
      (InCall(w) /\ (\/ ~self._enabled
                     \/ self._full_sync_strm_paths = EmptyText
                     \/ self._uid = ""
                     \/ self._secret_key = "")) =>
        /\ Returned(w)
        /\ ~InPass(w)
        /\ NoEffect(w)

\* an enabled plugin with paths and a secret but no uid was asked for a pass
\* and returned at the precondition
C8_Witness ==
    \E w \in Workers :
      /\ Returned(w) /\ InCall(w) /\ ~InPass(w)
      /\ self._enabled /\ self._full_sync_strm_paths # EmptyText
      /\ self._uid = "" /\ self._secret_key # ""
      /\ NoEffect(w)

C7_AdvanceOnlyOnCompletion ==
    \A w \in Workers :
      (Returned(w) /\ InPass(w)) =>
        /\ loc[w].pass_ret = "False" =>
              /\ self._last_sync_time = loc[w].start_lst
              /\ stored = loc[w].start_stored
        /\ loc[w].pass_ret = "True" =>
              /\ self._last_sync_time \in {loc[w].start_clock, loc[w].end_clock}
              /\ stored.last_sync_time = StrOf(self._last_sync_time)

\* C9: on a configuration error (missing credentials, missing signing
\* domain, missing paths) a sync pass stops before any I/O, returns failure
\* (False), and leaves last_sync_time unchanged.
C9_ConfigErrorAborts ==
    \A w \in Workers :
      (InCall(w) /\ (\/ self._uid = ""
                     \/ self._secret_key = ""
                     \/ self._custom_domain = ""
                     \/ self._full_sync_strm_paths = EmptyText)) =>
        /\ Returned(w)
        /\ Kinds(w, {"list", "found", "mkdir", "write"}) = {}
        /\ localDirs = loc[w].start_dirs
        /\ self._last_sync_time = loc[w].start_lst
        /\ loc[w].ret = "False"

\* C10: every call of full_sync_strm_files and of incremental_sync_files
\* returns a boolean, True exactly when the pass reached its end without a
\* top-level exception, False otherwise, calls that stop at a precondition
\* and the first-run fallback of the incremental pass included.
C10_ReturnsBoolean ==
    \A w \in Workers :
      Returned(w) =>
        /\ loc[w].ret \in {"True", "False"}
        /\ (loc[w].ret = "True") <=> (Last(log[w]).ev = "completed")

\* C11: over any sequence of full and incremental passes, with remote files
\* deleted and renamed between them, no step removes a local file or a local
\* directory: the set of local paths only grows.
C11_LocalPathsNeverShrink ==
    [][/\ DOMAIN localFiles \subseteq DOMAIN localFiles'
       /\ localDirs \subseteq localDirs']_vars

\* a pass that wrote files returned True after a remote file had been deleted
\* or renamed, and the local file an earlier pass made for it is still there
C11_Witness ==
    \E w \in Workers :
      /\ Returned(w) /\ loc[w].pass_ret = "True"
      /\ Kinds(w, {"write"}) # {}
      /\ \E p \in DOMAIN localFiles \cap DOMAIN loc[w].start_files :
            LET f == localFiles[p].src
            IN  \/ drive[f].parent = Absent
                \/ drive[f].name = "a.b.mkv" /\ Last(p) = "A.strm"

\* the local paths the call of worker w wrote
Written(w) == {log[w][i].path : i \in Kinds(w, {"write"})}

\* C12: full_sync_strm_files run twice in sequence against an unchanged
\* remote tree and configuration, nothing raising in either run: the second
\* run writes exactly the paths the first wrote, creates no local file or
\* directory, and leaves every file with the content it had (the model's
\* content of a pointer file is its domain and signed path; the expire time
\* and the nonce are not part of it).
C12_FullSyncIdempotent ==
    \A w \in Workers :
      (/\ Returned(w) /\ loc[w].func = "full" /\ loc[w].pass_ret = "True"
       /\ Kinds(w, {"error", "pair_error"}) = {}
       /\ loc[w].prev.func = "full" /\ loc[w].prev.clean) =>
        /\ Written(w) = loc[w].prev.writes
        /\ DOMAIN localFiles = DOMAIN loc[w].start_files
        /\ localDirs = loc[w].start_dirs
        /\ localFiles = loc[w].start_files

\* a second full pass in a row returned, having overwritten the two
\* pointer files of the first
C12_Witness ==
    \E w \in Workers :
      /\ Returned(w) /\ loc[w].func = "full" /\ loc[w].pass_ret = "True"
      /\ Kinds(w, {"error", "pair_error"}) = {}
      /\ loc[w].prev.func = "full" /\ loc[w].prev.clean
      /\ Cardinality(Written(w)) = 2
      /\ Written(w) \subseteq DOMAIN loc[w].start_files

\* C13: for each pair the resolution returns the directory the configured
\* remote path names whenever every segment exists as a directory with that
\* name at its level, however many entries the level holds (a file of that
\* name does not count); when a segment does not exist the pair is given up
\* with an error before any traversal.
C13_ResolutionFindsDirectory ==
    \A w \in Workers :
      (Returned(w) /\ InPass(w)) =>
        \A i \in Kinds(w, {"pair"}) :
          LET seg == SegmentOf(w, i)
              target == WalkDown(drive, 0, NonEmptySegs(StripSlash(log[w][i].path)))
              given_up == {k \in seg \cap Kinds(w, {"pair_error"}) :
                             log[w][k].path = <<"not_found">>}
              lists == seg \cap Kinds(w, {"list"})
          IN  /\ (target # -1) <=> (given_up = {})
              /\ target = -1 => lists = {}
              /\ \A k \in lists :
                    (\A m \in lists : k <= m) => log[w][k].id = target

\* the local root of the pair under which position i of the history of worker
\* w was recorded: the local part of the configured line whose remote part the
\* latest "pair" event before i names
LocalRootAt(w, i) ==
    LET begun == {j \in Kinds(w, {"pair"}) : j < i}
        latest == CHOOSE j \in begun : \A k \in begun : k <= j
        lines == self._full_sync_strm_paths
        line == CHOOSE k \in 1..Len(lines) :
                    Len(lines[k]) = 2 /\ lines[k][2] = log[w][latest].path
    IN  lines[line][1]

\* what the loop body did with the entry recorded at position i of the history
\* of worker w: it signed and wrote a pointer (or raised doing so), it asked
\* for the download of a sidecar, or it ignored the entry
Treated(w, i) ==
    CASE log[w][i + 2].ev \in {"write", "error"} -> "streamable"
      [] log[w][i + 2].ev = "download_info" -> "sidecar"
      [] log[w][i + 2].ev = "ignore" -> "ignored"
      [] OTHER -> "none"

\* the final extension of name is one of the comma-separated extensions of
\* text, letter case and surrounding blanks aside
Names(text, name) ==
    \E t \in 1..Len(text) : "." \o Lower(Strip(text[t])) = Lower(Suffix(name))

\* C14: in a full and in an incremental pass every entry the loop body takes
\* up is treated in exactly one of three ways, decided by the final extension
\* of its name compared without regard to letter case: as streamable if and
\* only if the streamable set names the extension (also when the sidecar set
\* names it too), as ignored when neither set names it, and as sidecar only
\* when the sidecar set names it and the streamable set does not; two names
\* whose extensions differ in letter case only are treated alike.
C14_Classification ==
    \A w \in Workers :
      (Returned(w) /\ InPass(w)) =>
        \A i \in Kinds(w, {"entry"}) :
          LET name == drive[log[w][i].id].name
              streamable == Names(self._user_rmt_mediaext, name)
              sidecar == Names(self._user_download_mediaext, name)
          IN  /\ Treated(w, i) \in {"streamable", "sidecar", "ignored"}
              /\ (Treated(w, i) = "streamable") <=> streamable
              /\ (~streamable /\ ~sidecar) => Treated(w, i) = "ignored"
              /\ Treated(w, i) = "sidecar" => (sidecar /\ ~streamable)
              /\ \A j \in Kinds(w, {"entry"}) :
                    Lower(Suffix(drive[log[w][j].id].name)) = Lower(Suffix(name))
                        => Treated(w, j) = Treated(w, i)

\* a pass returned in which B 1.MKV got its pointer like A.mkv, whose
\* extension both sets name, and C.mp4, whose extension neither set names,
\* was ignored
C14_Witness ==
    \E w \in Workers :
      /\ Returned(w) /\ InPass(w)
      /\ Names(self._user_rmt_mediaext, "A.mkv")
      /\ Names(self._user_download_mediaext, "A.mkv")
      /\ ~Names(self._user_rmt_mediaext, "C.mp4")
      /\ ~Names(self._user_download_mediaext, "C.mp4")
      /\ \E i, j, k \in Kinds(w, {"entry"}) :
            /\ drive[log[w][i].id].name = "A.mkv" /\ log[w][i + 2].ev = "write"
            /\ drive[log[w][j].id].name = "B 1.MKV" /\ log[w][j + 2].ev = "write"
            /\ drive[log[w][k].id].name = "C.mp4" /\ log[w][k + 2].ev = "ignore"

\* C15: while the auto-download option is off, a full or incremental pass
\* asks for no download info and leaves every local sidecar file as the call
\* found it, creating none; every file it writes is a pointer; and the pointer
\* of /media/movies/A.mkv under the pair /local/movies#/media/movies is
\* /local/movies/A.strm, holding a signed URL whose path ends in
\* media/movies/A.mkv, while /local/movies/A.nfo is not created.
C15_NoDownloadWhenDisabled ==
    \A w \in Workers :
      (Returned(w) /\ InPass(w) /\ ~self._full_sync_auto_download_mediainfo_enabled) =>
        /\ Kinds(w, {"download_info"}) = {}
        /\ \A p \in DOMAIN localFiles :
              localFiles[p].kind = "data" =>
                 /\ p \in DOMAIN loc[w].start_files
                 /\ localFiles[p] = loc[w].start_files[p]
        /\ \A i \in Kinds(w, {"write"}) : localFiles[log[w][i].path].kind = "strm"
        /\ <<"/", "local", "movies", "A.nfo">> \in DOMAIN localFiles
              => <<"/", "local", "movies", "A.nfo">> \in DOMAIN loc[w].start_files
        /\ \A i \in Kinds(w, {"write"}) :
              (/\ drive[log[w][i].id].name = "A.mkv"
               /\ LocalRootAt(w, i) = PairMovies[1]) =>
                 /\ log[w][i].path = <<"/", "local", "movies", "A.strm">>
                 /\ LET url == localFiles[log[w][i].path].path
                    IN  /\ Len(url) >= 3
                        /\ SubSeq(url, Len(url) - 2, Len(url))
                              = <<"media", "movies", "A.mkv">>

\* a pass with the option off returned that wrote /local/movies/A.strm for
\* A.mkv and ignored A.nfo, whose extension the sidecar set names; there is no
\* /local/movies/A.nfo
C15_Witness ==
    \E w \in Workers :
      /\ Returned(w) /\ InPass(w) /\ loc[w].pass_ret = "True"
      /\ ~self._full_sync_auto_download_mediainfo_enabled
      /\ Names(self._user_download_mediaext, "A.nfo")
      /\ \E i \in Kinds(w, {"write"}), j \in Kinds(w, {"ignore"}) :
            /\ drive[log[w][i].id].name = "A.mkv"
            /\ log[w][i].path = <<"/", "local", "movies", "A.strm">>
            /\ drive[log[w][j].id].name = "A.nfo"
      /\ <<"/", "local", "movies", "A.strm">> \in DOMAIN localFiles
      /\ <<"/", "local", "movies", "A.nfo">> \notin DOMAIN localFiles

\* the dot-separated segments of the file names of the model
DotSegments ==
    [n \in {"A.mkv", "A.nfo", "B 1.MKV", "C.mp4", "a.b.mkv"} |->
        CASE n = "A.mkv" -> <<"A", "mkv">>
          [] n = "a.b.mkv" -> <<"a", "b", "mkv">>
          [] n = "A.nfo" -> <<"A", "nfo">>
          [] n = "B 1.MKV" -> <<"B 1", "MKV">>
          [] n = "C.mp4" -> <<"C", "mp4">>]

RECURSIVE JoinDots(_)
JoinDots(segs) ==
    IF Len(segs) = 1 THEN segs[1]
    ELSE segs[1] \o "." \o JoinDots(Tail(segs))

\* name without its last dot-segment
AllButLastSegment(name) ==
    JoinDots(SubSeq(DotSegments[name], 1, Len(DotSegments[name]) - 1))

\* C16: in a full and in an incremental pass the pointer of a streamable
\* entry with relpath d/name under the pair (local_root, remote_root) is
\* local_root/d/<stem>.strm, <stem> being name without its last dot-segment,
\* whatever the media extension; once written, the file at that path holds
\* this entry's URL, whether or not a file was there before.
C16_PointerPath ==
    \A w \in Workers :
      (Returned(w) /\ InPass(w)) =>
        \A i \in Kinds(w, {"entry"}) :
          Treated(w, i) = "streamable" =>
             LET relpath == log[w][i].path
                 name == drive[log[w][i].id].name
                 pointer == PathParts(LocalRootAt(w, i))
                              \o SubSeq(relpath, 1, Len(relpath) - 1)
                              \o <<AllButLastSegment(name) \o ".strm">>
             IN  /\ Last(relpath) = name
                 /\ log[w][i + 2].path = pointer
                 /\ log[w][i + 2].ev = "write" =>
                       /\ pointer \in DOMAIN localFiles
                       /\ localFiles[pointer].kind = "strm"
                       /\ localFiles[pointer].src = log[w][i].id
                       /\ Last(localFiles[pointer].path) = name

\* a pass returned that wrote /local/movies/a.b.strm for a.b.mkv and
\* overwrote /local/movies/sub/B 1.strm, which an earlier pass had written
\* for B 1.MKV
C16_Witness ==
    \E w \in Workers :
      /\ Returned(w) /\ InPass(w)
      /\ \E i, j \in Kinds(w, {"write"}) :
            /\ drive[log[w][i].id].name = "a.b.mkv"
            /\ log[w][i].path = <<"/", "local", "movies", "a.b.strm">>
            /\ drive[log[w][j].id].name = "B 1.MKV"
            /\ log[w][j].path = <<"/", "local", "movies", "sub", "B 1.strm">>
            /\ log[w][j].path \in DOMAIN loc[w].start_files
            /\ {log[w][i].path, log[w][j].path} \subseteq DOMAIN localFiles

\* C17: in a full and in an incremental pass, for every entry the loop body
\* takes up under a pair (local_root, remote_root), the local path it computes
\* has local_root as prefix and is relpath once that prefix is stripped: the
\* directory it creates is local_root joined with the directory of relpath,
\* and the path of an ignored entry and of a downloaded sidecar is local_root
\* joined with relpath.
C17_PathRoundTrip ==
    \A w \in Workers :
      (Returned(w) /\ InPass(w)) =>
        \A i \in Kinds(w, {"entry"}) :
            LET relpath == log[w][i].path
                local_root == PathParts(LocalRootAt(w, i))
                made == log[w][i + 1].path
                done == log[w][i + 2]
            IN  /\ log[w][i + 1].ev = "mkdir"
                /\ IsPrefix(local_root, made)
                /\ RelativeTo(made, local_root) = SubSeq(relpath, 1, Len(relpath) - 1)
                /\ made \in localDirs
                /\ IsPrefix(made, done.path)
                /\ Len(done.path) = Len(made) + 1
                /\ done.ev \in {"ignore", "download_info"} =>
                      /\ IsPrefix(local_root, done.path)
                      /\ RelativeTo(done.path, local_root) = relpath

\* a pass returned that handled sub/B 1.MKV below /local/movies/sub, made by
\* the pass, and C.mp4 of the pair whose remote root is written /media/tv/
C17_Witness ==
    \E w \in Workers :
      /\ Returned(w) /\ InPass(w)
      /\ \E i, j \in Kinds(w, {"entry"}) :
            /\ log[w][i].path = <<"sub", "B 1.MKV">>
            /\ log[w][i + 1].path = <<"/", "local", "movies", "sub">>
            /\ log[w][i + 1].path \in localDirs \ loc[w].start_dirs
            /\ log[w][j].path = <<"C.mp4">>
            /\ log[w][j + 2].path = <<"/", "local", "tv", "C.mp4">>
            /\ loc[w].pan_path = StripSlash(PairTv[2])
            /\ loc[w].pan_path # PairTv[2]

(***************************************************************************)
(* has_prefix and __get_media_path on their own: a caller that applies     *)
(* each once to arguments drawn from the texts below.                      *)
(***************************************************************************)
\* Path(full_path).parts[: len(prefix)] == Path(prefix_path).parts
has_prefix(full_path, prefix_path) ==
    LET full == PathParts(full_path)
        prefix == PathParts(prefix_path)
    IN  IF Len(prefix) > Len(full) THEN FALSE
        ELSE SubSeq(full, 1, Len(prefix)) = prefix

\* the loop of __get_media_path over paths.split("\n"); parts[1] of a line
\* without '#' raises IndexError
RECURSIVE __get_media_path(_, _)
__get_media_path(paths, media_path) ==
    IF paths = <<>> THEN [raised |-> FALSE, ret |-> <<FALSE, None, None>>]
    ELSE LET parts == Head(paths)
         IN  IF parts = BlankLine THEN __get_media_path(Tail(paths), media_path)
             ELSE IF Len(parts) < 2 THEN [raised |-> TRUE, ret |-> <<"IndexError">>]
             ELSE IF has_prefix(media_path, parts[2])
                  THEN [raised |-> FALSE, ret |-> <<TRUE, parts[1], parts[2]>>]
                  ELSE __get_media_path(Tail(paths), media_path)

PairMedia == <<<<"", "local", "all">>, <<"", "media">>>>

\* the path arguments: /media/movies, /media/mov, /media/movies/A.mkv, /media,
\* media/movies, /media/movies/, /media/tv/C.mp4 and ""
PathTexts ==
    { <<"", "media", "movies">>, <<"", "media", "mov">>,
      <<"", "media", "movies", "A.mkv">>, <<"", "media">>,
      <<"media", "movies">>, <<"", "media", "movies", "">>,
      <<"", "media", "tv", "C.mp4">>, EmptyStr }

\* the path-pair texts
PairTexts ==
    { <<PairMovies>>, <<PairTv, PairMovies>>, <<PairMedia, PairMovies>>,
      <<PairMovies, PairMedia>>, <<BlankLine, PairMovies>>,
      <<Malformed, PairMovies>>, EmptyText }

InitPath ==
    /\ drive = MediaDrive
    /\ mtime = MediaTimes
    /\ clock = InitClock
    /\ self = ClassAttributes
    /\ stored = NoConfig
    /\ orphans = {}
    /\ localDirs = {<<"/">>}
    /\ localFiles = <<>>
    /\ pc = [w \in Workers |-> "idle"]
    /\ \E full_path \in PathTexts, prefix_path \in PathTexts, paths \in PairTexts :
          loc = [w \in Workers |->
                   IF w = "w1"
                   THEN [NoLoc EXCEPT !.pan_path = full_path,
                                      !.local_path = prefix_path,
                                      !.paths = paths]
                   ELSE NoLoc]
    /\ log = [w \in Workers |-> <<>>]
    /\ events = 0
    /\ inits = 0

\* the calls of worker w recorded so far
Called(w, fn) == {i \in 1..Len(log[w]) : log[w][i].fn = fn}

\* self.has_prefix(full_path, prefix_path)
CallHasPrefix(w) ==
    /\ Called(w, "has_prefix") = {}
    /\ Logged(w, <<[fn |-> "has_prefix", raised |-> FALSE,
                    ret |-> has_prefix(loc[w].pan_path, loc[w].local_path)]>>)
    /\ UNCHANGED <<drive, mtime, clock, self, stored, orphans, localDirs,
                   localFiles, pc, loc, events, inits>>

\* self.__get_media_path(paths, media_path)
CallGetMediaPath(w) ==
    /\ Called(w, "__get_media_path") = {}
    /\ LET out == __get_media_path(loc[w].paths, loc[w].pan_path)
       IN  Logged(w, <<[fn |-> "__get_media_path", raised |-> out.raised,
                        ret |-> out.ret]>>)
    /\ UNCHANGED <<drive, mtime, clock, self, stored, orphans, localDirs,
                   localFiles, pc, loc, events, inits>>

NextPath == CallHasPrefix("w1") \/ CallGetMediaPath("w1")

SpecPath == InitPath /\ [][NextPath]_vars

(***************************************************************************)
(* Properties of has_prefix and __get_media_path (SpecPath).               *)
(***************************************************************************)
\* every segment of prefix is the segment of full at the same position
SegmentsLead(full, prefix) ==
    /\ Len(prefix) <= Len(full)
    /\ \A k \in 1..Len(prefix) : prefix[k] = full[k]

\* C18: has_prefix(full_path, prefix_path) is true if and only if prefix_path
\* has no more segments than full_path and each of its segments is the segment
\* of full_path at the same position, so /media/mov is no prefix of
\* /media/movies; and when some line of the text is a pair whose remote root
\* is such a prefix of the media path, __get_media_path returns the first of
\* these pairs in the order of the text.
C18_PrefixAndFirstPair ==
    \A w \in Workers :
      LET media_path == loc[w].pan_path
          paths == loc[w].paths
          matching == {k \in 1..Len(paths) :
                          /\ Len(paths[k]) = 2
                          /\ SegmentsLead(PathParts(media_path), PathParts(paths[k][2]))}
      IN  /\ \A i \in Called(w, "has_prefix") :
                /\ log[w][i].ret
                     <=> SegmentsLead(PathParts(loc[w].pan_path),
                                      PathParts(loc[w].local_path))
                /\ (/\ loc[w].pan_path = <<"", "media", "movies">>
                    /\ loc[w].local_path = <<"", "media", "mov">>) => ~log[w][i].ret
          /\ \A i \in Called(w, "__get_media_path") :
                matching # {} =>
                   LET first == CHOOSE k \in matching : \A m \in matching : k <= m
                   IN  /\ ~log[w][i].raised
                       /\ log[w][i].ret = <<TRUE, paths[first][1], paths[first][2]>>

(***************************************************************************)
(* _generate_auth_url on its own: a caller that signs paths with an        *)
(* instance whose credentials and domain are drawn from the values below.  *)
(***************************************************************************)
MaxCalls == 2      \* calls of _generate_auth_url per behaviour

Domains ==
    {"", "vip.123pan.cn", "https://vip.123pan.cn", "http://cdn.example", "cdn.example/"}

\* the encoded paths that are signed: media/movies/A.mkv and
\* media/movies/sub/B%201.MKV
SignedPaths ==
    { <<"media", "movies", "A.mkv">>, <<"media", "movies", "sub", "B%201.MKV">> }

InitSign ==
    /\ drive = MediaDrive
    /\ mtime = MediaTimes
    /\ clock = InitClock
    /\ \E uid \in {"", "1001"}, secret_key \in {"", "k"}, custom_domain \in Domains,
          expire_time \in {DefaultExpire, 1} :
          self = [ClassAttributes EXCEPT !._uid = uid, !._secret_key = secret_key,
                                         !._custom_domain = custom_domain,
                                         !._expire_time = expire_time]
    /\ stored = NoConfig
    /\ orphans = {}
    /\ localDirs = {<<"/">>}
    /\ localFiles = <<>>
    /\ Idle

\* url = self._generate_auth_url(file_path); the history keeps the arguments,
\* the clock and random number the call read, the instance it was made on and
\* what came back
CallSign(w) ==
    /\ Len(log[w]) < MaxCalls
    /\ \E file_path \in SignedPaths, rand \in Nonces :
          LET out == _generate_auth_url(self, file_path, clock, rand)
          IN  Logged(w, <<[fn |-> "_generate_auth_url", file_path |-> file_path,
                           now |-> clock, rand |-> rand, on |-> self,
                           raised |-> ~out.ok,
                           ret |-> IF out.ok THEN out.url ELSE None]>>)
    /\ UNCHANGED <<drive, mtime, clock, self, stored, orphans, localDirs,
                   localFiles, pc, loc, events, inits>>

NextSign == CallSign("w1") \/ Tick

SpecSign == InitSign /\ [][NextSign]_vars

(***************************************************************************)
(* Properties of _generate_auth_url (SpecSign).                            *)
(***************************************************************************)
\* the text of the URL begins with text t: the URL is the domain followed by
\* the request path, which begins with '/'
UrlStartsWith(url, t) ==
    \/ t = url.domain
    \/ t = url.domain \o "/" /\ url.path[1] = ""

\* the configured domains that carry a scheme
WithScheme == {"https://vip.123pan.cn", "http://cdn.example"}

\* C19: a call of _generate_auth_url on an instance without uid, without
\* secret_key or without custom domain raises and returns no URL; on any other
\* instance it returns a URL, which begins with https:// followed by the
\* configured domain when that domain has no http:// or https:// scheme, and
\* with the configured domain itself when it has one.
C19_SignerConfiguration ==
    \A w \in Workers :
      \A i \in Called(w, "_generate_auth_url") :
        LET c == log[w][i]
            missing == c.on._uid = "" \/ c.on._secret_key = "" \/ c.on._custom_domain = ""
        IN  /\ missing => (c.raised /\ c.ret = None)
            /\ ~missing =>
                  /\ ~c.raised
                  /\ IF c.on._custom_domain \in WithScheme
                     THEN UrlStartsWith(c.ret, c.on._custom_domain)
                     ELSE UrlStartsWith(c.ret, "https://" \o c.on._custom_domain)

\* a call on an instance with credentials and the domain vip.123pan.cn
\* returned a URL that begins with https://vip.123pan.cn
C19_Witness ==
    \E i \in Called("w1", "_generate_auth_url") :
      LET c == log["w1"][i]
      IN  /\ c.on._uid # "" /\ c.on._secret_key # ""
          /\ c.on._custom_domain = "vip.123pan.cn"
          /\ ~c.raised /\ c.ret.domain = "https://vip.123pan.cn"

MinuteRange == 59

\* cron expressions: none, the default, and one that is no crontab line
Crons == {"", DefaultCron, "bad"}

\* CronTrigger.from_crontab(expr) raises ValueError unless expr has five fields
IsCrontab(expr) == expr = DefaultCron

Intervals == {-1, 0, 1, DefaultInterval, MinuteRange, MinuteRange + 1}

Max(a, b) == IF a > b THEN a ELSE b

\* get_service(): the list of jobs it returns (None when the list is empty),
\* or the exception that leaves it
get_service(s) ==
    LET full == /\ s._cron_full_sync_strm # ""
                /\ s._timing_full_sync_strm
                /\ s._full_sync_strm_paths # EmptyText
        interval == Max(1, s._incremental_sync_interval)
        incr == s._incremental_sync_enabled /\ s._full_sync_strm_paths # EmptyText
        first == IF full
                 THEN <<[id |-> "p123linker_full_sync_strm_files",
                         trigger |-> <<"crontab", s._cron_full_sync_strm>>,
                         func |-> "full"]>>
                 ELSE <<>>
        second == IF incr /\ interval <= MinuteRange
                  THEN <<[id |-> "p123linker_incremental_sync",
                          trigger |-> <<"minute", "*/", interval>>,
                          func |-> "incr"]>>
                  ELSE <<>>
    IN  IF full /\ ~IsCrontab(s._cron_full_sync_strm)
        THEN [raised |-> TRUE, ret |-> None]
        ELSE [raised |-> FALSE, ret |-> first \o second]

InitService ==
    /\ drive = MediaDrive
    /\ mtime = MediaTimes
    /\ clock = InitClock
    /\ \E timing \in BOOLEAN, cron \in Crons, paths \in {EmptyText, <<PairMovies>>},
          enabled \in BOOLEAN, interval \in Intervals :
          self = [ClassAttributes EXCEPT !._timing_full_sync_strm = timing,
                                         !._cron_full_sync_strm = cron,
                                         !._full_sync_strm_paths = paths,
                                         !._incremental_sync_enabled = enabled,
                                         !._incremental_sync_interval = interval]
    /\ stored = NoConfig
    /\ orphans = {}
    /\ localDirs = {<<"/">>}
    /\ localFiles = <<>>
    /\ Idle

\* the host calls get_service(); the history keeps what came back
CallGetService(w) ==
    /\ Called(w, "get_service") = {}
    /\ LET out == get_service(self)
       IN  Logged(w, <<[fn |-> "get_service", raised |-> out.raised, ret |-> out.ret]>>)
    /\ UNCHANGED <<drive, mtime, clock, self, stored, orphans, localDirs,
                   localFiles, pc, loc, events, inits>>

NextService == CallGetService("w1")

SpecService == InitService /\ [][NextService]_vars

(***************************************************************************)
(* Properties of get_service (SpecService).                                *)
(***************************************************************************)
\* the jobs of a returned list that run pass func
JobsOf(ret, func) == {k \in 1..Len(ret) : ret[k].func = func}

\* C21: get_service returns the periodic full-sync job if and only if the
\* timed-full-sync flag is set, the path text is not empty and a cron
\* expression is there, and the incremental job if and only if the
\* incremental flag is set and the path text is not empty; the step of the
\* incremental job's trigger is max(1, configured interval), never below 1.
C21_ServiceRegistration ==
    \A w \in Workers :
      \A i \in Called(w, "get_service") :
        LET c == log[w][i]
            paths == self._full_sync_strm_paths # EmptyText
            full == self._timing_full_sync_strm /\ paths /\ self._cron_full_sync_strm # ""
            incr == self._incremental_sync_enabled /\ paths
        IN  /\ ~c.raised
            /\ (JobsOf(c.ret, "full") # {}) <=> full
            /\ (JobsOf(c.ret, "incr") # {}) <=> incr
            /\ \A k \in JobsOf(c.ret, "incr") :
                  /\ c.ret[k].trigger[3] >= 1
                  /\ c.ret[k].trigger[3] = Max(1, self._incremental_sync_interval)

(***************************************************************************)
(* The plugin's life in the host (SpecLife): the host and the user call    *)
(* init_plugin, get_service and stop_service one after the other; no job   *)
(* fires.  The history keeps, for every call, the instance and the stored  *)
(* configuration before and after it.                                      *)
(***************************************************************************)
MaxOps == 3        \* host calls per behaviour

\* the configurations a user saves in this specification
LifeConfigs ==
    { [Working EXCEPT !.once_full_sync_strm = TRUE],
      [Working EXCEPT !.once_incremental_sync = TRUE, !.last_sync_time = StrOf(2)],
      [Working EXCEPT !.once_full_sync_strm = TRUE, !.once_incremental_sync = TRUE],
      [Working EXCEPT !.enabled = FALSE, !.once_full_sync_strm = TRUE,
                      !.once_incremental_sync = TRUE],
      [Working EXCEPT !.last_sync_time = None] }

InitLife ==
    /\ drive = MediaDrive
    /\ mtime = MediaTimes
    /\ clock = InitClock
    /\ self = ClassAttributes
    /\ stored = NoConfig
    /\ orphans = {}
    /\ localDirs = {<<"/">>}
    /\ localFiles = <<>>
    /\ Idle

\* the record of one host call
Op(fn, config, s, kept, s2, kept2, jobs) ==
    [fn |-> fn, config |-> config, on |-> s, kept |-> kept,
     after |-> s2, saved |-> kept2, jobs |-> jobs]

\* the host calls init_plugin(config): with what the user saved, with the
\* stored configuration, or with none
LifeInitPlugin(w, config) ==
    /\ Len(log[w]) < MaxOps
    /\ inits' = inits + 1
    /\ LET preset == Preset(self, clock)
           loaded == IF config # NoConfig THEN Load(preset, config, clock) ELSE preset
           shots == OneShots(Stopped(loaded))
           kept2 == IF shots.saved THEN ConfigOf(shots.inst)
                    ELSE IF config # NoConfig THEN ConfigOf(loaded)
                    ELSE stored
       IN  /\ self' = shots.inst
           /\ stored' = kept2
           /\ orphans' = orphans \cup shots.orphaned
           /\ Logged(w, <<Op("init_plugin", config, self, stored, shots.inst, kept2,
                             RefJobs(shots.inst) \cup shots.orphaned)>>)
    /\ UNCHANGED <<drive, mtime, clock, localDirs, localFiles, pc, loc, events>>

\* the host calls get_service() with a crontab line in the configuration
LifeGetService(w) ==
    /\ Len(log[w]) < MaxOps
    /\ ~get_service(self).raised
    /\ Logged(w, <<Op("get_service", NoConfig, self, stored, self, stored, {})>>)
    /\ UNCHANGED <<drive, mtime, clock, self, stored, orphans, localDirs,
                   localFiles, pc, loc, events, inits>>

\* the host calls stop_service()
LifeStopService(w) ==
    /\ Len(log[w]) < MaxOps
    /\ self' = Stopped(self)
    /\ Logged(w, <<Op("stop_service", NoConfig, self, stored, Stopped(self), stored, {})>>)
    /\ UNCHANGED <<drive, mtime, clock, stored, orphans, localDirs,
                   localFiles, pc, loc, events, inits>>

LifeConfigure(w) == \E config \in LifeConfigs \cup {stored, NoConfig} : LifeInitPlugin(w, config)

NextLife ==
    \/ LifeConfigure("w1")
    \/ LifeGetService("w1")
    \/ LifeStopService("w1")
    \/ Tick

SpecLife == InitLife /\ [][NextLife]_vars

(***************************************************************************)
(* Properties of the one-shot flags and of _last_sync_time (SpecLife).     *)
(***************************************************************************)
\* the one-shot passes init_plugin is asked for: the flags of the instance
\* once the configuration, if any, is loaded
Asked(c) ==
    LET loaded == IF c.config # NoConfig THEN Load(Preset(c.on, 0), c.config, 0)
                  ELSE Preset(c.on, 0)
    IN  [enabled |-> loaded._enabled,
         flags |-> {f \in {"full", "incr"} :
                      IF f = "full" THEN loaded._once_full_sync_strm
                      ELSE loaded._once_incremental_sync}]

\* C22: an init_plugin call of an enabled plugin schedules one run for each
\* one-shot flag that is set and none for a flag that is not, leaves both
\* flags false in the instance and in the stored configuration, and an
\* init_plugin call that follows with the stored configuration schedules no
\* run; a disabled plugin schedules nothing and keeps its flags.
C22_OneShotSelfClearing ==
    \A w \in Workers :
      \A i \in Called(w, "init_plugin") :
        LET c == log[w][i]
            asked == Asked(c)
        IN  /\ asked.enabled =>
                 /\ c.jobs = asked.flags
                 /\ ~c.after._once_full_sync_strm /\ ~c.after._once_incremental_sync
                 /\ asked.flags # {} =>
                      /\ c.saved # NoConfig
                      /\ ~c.saved.once_full_sync_strm
                      /\ ~c.saved.once_incremental_sync
            /\ ~asked.enabled =>
                 /\ c.jobs = {}
                 /\ c.config # NoConfig =>
                      /\ c.saved.once_full_sync_strm = c.config.once_full_sync_strm
                      /\ c.saved.once_incremental_sync = c.config.once_incremental_sync
            /\ (/\ i < Len(log[w])
                /\ c.jobs # {}
                /\ log[w][i + 1].fn = "init_plugin"
                /\ log[w][i + 1].config = c.saved) => log[w][i + 1].jobs = {}

\* both flags were consumed by one call, and the call after it, made with the
\* stored configuration, scheduled nothing
C22_Witness ==
    /\ Len(log["w1"]) >= 2
    /\ log["w1"][1].fn = "init_plugin"
    /\ log["w1"][1].jobs = {"full", "incr"}
    /\ log["w1"][2].fn = "init_plugin"
    /\ log["w1"][2].config = log["w1"][1].saved
    /\ log["w1"][2].jobs = {}

\* last_sync_time of a stored configuration; None when nothing is stored or
\* the key is missing
StoredSyncTime(config) == IF config = NoConfig THEN None ELSE config.last_sync_time

\* C23: no host call changes last_sync_time.  get_service and stop_service
\* leave the instance's and the stored value alone; init_plugin without a
\* configuration leaves the instance's value alone; init_plugin with a
\* configuration takes the value that configuration holds and stores it
\* back unchanged, a stored 0 staying 0.
C23_SyncTimeOnlyByPasses ==
    \A w \in Workers :
      \A i \in 1..Len(log[w]) :
        LET c == log[w][i]
        IN  IF c.fn = "init_plugin" /\ c.config # NoConfig
            THEN /\ StoredSyncTime(c.saved) = StoredSyncTime(c.config)
                 /\ StoredSyncTime(c.config) # None =>
                      c.after._last_sync_time = IntOf(StoredSyncTime(c.config))
                 /\ StoredSyncTime(c.config) = None =>
                      c.after._last_sync_time = c.on._last_sync_time
            ELSE /\ c.after._last_sync_time = c.on._last_sync_time
                 /\ StoredSyncTime(c.saved) = StoredSyncTime(c.kept)

(***************************************************************************)
(* Two passes at once (SpecRace).  The host's scheduler runs the jobs of   *)
(* get_service in a thread pool: the full job and the incremental job are  *)
(* two jobs, and nothing in the plugin keeps one from starting while the   *)
(* other runs.  The plugin is configured with the single pair PairMovies,   *)
(* mp4 as the only streamable extension (no remote file of the pair has    *)
(* it), both periodic jobs on, and a known sync time; no failure is        *)
(* injected.                                                               *)
(***************************************************************************)
Racing ==
    [Working EXCEPT !.full_sync_strm_paths = <<PairMovies>>,
                    !.user_rmt_mediaext = <<"mp4">>,
                    !.timing_full_sync_strm = TRUE,
                    !.cron_full_sync_strm = DefaultCron,
                    !.incremental_sync_enabled = TRUE,
                    !.last_sync_time = StrOf(1)]

InitRace ==
    /\ drive = MediaDrive
    /\ mtime = MediaTimes
    /\ clock = InitClock
    /\ self = Load(Preset(ClassAttributes, InitClock), Racing, InitClock)
    /\ stored = ConfigOf(self)
    /\ orphans = {}
    /\ localDirs = {<<"/">>}
    /\ localFiles = <<>>
    /\ pc = [w \in Workers |-> "idle"]
    /\ loc = [w \in Workers |-> NoLoc]
    /\ log = [w \in Workers |-> <<>>]
    /\ events = MaxEvents
    /\ inits = 1

\* a job of get_service fires on a free thread; the scheduler does not start
\* a job that is still running a second time
ServiceJob(w) ==
    \E k \in 1..Len(get_service(self).ret) :
      LET job == get_service(self).ret[k]
      IN  /\ \A v \in Workers \ {w} : pc[v] = "idle" \/ loc[v].func # job.func
          /\ Enter(w, job.func, self)
          /\ UNCHANGED <<drive, mtime, clock, self, stored, orphans, localDirs,
                         localFiles, events, inits>>

RacePass(w) ==
    \/ ServiceJob(w)
    \/ NextPair(w)
    \/ ResolvePart(w)
    \/ IterFetch(w)
    \/ IterItem(w)
    \/ PairDone(w)
    \/ Finish(w)
    \/ Return(w)

NextRace == RacePass("w1") \/ RacePass("w2") \/ Tick

SpecRace == InitRace /\ [][NextRace]_vars

(***************************************************************************)
(* Properties of overlapping passes (SpecRace).                            *)
(***************************************************************************)
\* the value the pass of worker w wrote to _last_sync_time when it completed
WroteSyncTime(w) == Last(log[w]).n

\* C24: a pass that completes writes its own value to _last_sync_time,
\* int(time.time()) for a full pass and the time it started for an
\* incremental pass, whatever another pass wrote in the meantime and even
\* when that lowers the value: the last writer wins.
C24_LastWriterWins ==
    [][\A w \in Workers :
         (pc[w] = "finish" /\ pc'[w] = "done") =>
            /\ self'._last_sync_time =
                 (IF loc[w].mode = "full" THEN clock ELSE loc[w].current_time)
            /\ stored'.last_sync_time = StrOf(self'._last_sync_time)]_vars

\* an incremental pass and a full pass both completed; the incremental pass
\* started before the full pass wrote its time and completed after it, so
\* _last_sync_time is lower than what the full pass wrote
C24_Witness ==
    \E w, v \in Workers :
      /\ pc[w] = "done" /\ loc[w].mode = "incr" /\ loc[w].pass_ret = "True"
      /\ pc[v] = "done" /\ loc[v].mode = "full" /\ loc[v].pass_ret = "True"
      /\ self._last_sync_time = loc[w].current_time
      /\ self._last_sync_time < WroteSyncTime(v)
      /\ stored.last_sync_time = StrOf(loc[w].current_time)

(***************************************************************************)
(* More properties of the traversal (SpecIter, SpecIterFair).              *)
(***************************************************************************)
\* the caller is a `for` loop: it asks for the next item until the generator
\* stops or raises
SpecIterFair == InitIter /\ [][NextIter]_vars /\ WF_vars(NextIter)

ListEvents(w) == SelectSeq(log[w], LAMBDA e : e.ev = "list")

\* the directories of the tree that iterdir(root) has to list
DirsFrom(d, root) == {root} \cup {i \in Below(d, root) : d[i].isdir}

\* the first-page requests made for directory dir
FirstRequests(w, dir) ==
    {i \in 1..Len(ListEvents(w)) : ListEvents(w)[i].id = dir /\ ListEvents(w)[i].n = 0}

\* C25: iterdir terminates: a caller that keeps asking reaches StopIteration
\* (or the exception of a failed listing); when the generator stops its queue
\* is empty and the root and every directory below it has been dequeued
\* exactly once, a directory outside never; no listing request follows.
C25_Terminates ==
    /\ <>(pc["w1"] \in {"stopped", "raised"})
    /\ [](pc["w1"] = "stopped" =>
            /\ loc["w1"].it.queue = <<>>
            /\ \A dir \in {0} \cup DirIds(drive) :
                  Cardinality(FirstRequests("w1", dir)) =
                     IF dir \in DirsFrom(drive, loc["w1"].current_parent_id)
                     THEN 1 ELSE 0)
    /\ [][pc["w1"] = "stopped" => log' = log]_vars

\* a traversal over directories nested two deep came to its end
C25_Witness ==
    /\ pc["w1"] = "stopped"
    /\ \E dir \in DirsFrom(drive, loc["w1"].current_parent_id) :
          /\ Len(NamesFrom(drive, loc["w1"].current_parent_id, dir)) = 2
          /\ FirstRequests("w1", dir) # {}

\* the ids of the yielded entries of kind n (1 directory, 0 file)
YieldedIds(w, n) ==
    {YieldEvents(w)[i].id : i \in {j \in 1..Len(YieldEvents(w)) : YieldEvents(w)[j].n = n}}

\* C26: with only_file=True iterdir yields files only, each at most once and
\* with its path below the root; when it stops it has yielded exactly the
\* files below the root, at every depth, and has listed the root and every
\* directory below it; with only_file=False it has yielded the same files and
\* every directory below the root as well.
C26_OnlyFile ==
    \A w \in Workers :
      pc[w] \in {"traverse", "stopped", "raised"} =>
        LET ys == YieldEvents(w)
            root == loc[w].current_parent_id
            only_file == loc[w].it.only_file
            below == Below(drive, root)
        IN  /\ only_file => \A i \in 1..Len(ys) : ys[i].n = 0 /\ ~drive[ys[i].id].isdir
            /\ \A i, j \in 1..Len(ys) : ys[i].id = ys[j].id => i = j
            /\ \A i \in 1..Len(ys) : ys[i].path = NamesFrom(drive, root, ys[i].id)
            /\ pc[w] = "stopped" =>
                 /\ YieldedIds(w, 0) = {i \in below : ~drive[i].isdir}
                 /\ YieldedIds(w, 1) = IF only_file THEN {}
                                       ELSE {i \in below : drive[i].isdir}
                 /\ {ListEvents(w)[i].id : i \in 1..Len(ListEvents(w))}
                       = DirsFrom(drive, root)

\* a traversal with only_file=True came to its end having yielded a file that
\* lies in a directory two levels below the root
C26_Witness ==
    \E w \in Workers :
      /\ pc[w] = "stopped" /\ loc[w].it.only_file
      /\ \E i \in 1..Len(YieldEvents(w)) : Len(YieldEvents(w)[i].path) = 3
      /\ Cardinality(DirsFrom(drive, loc[w].current_parent_id)) >= 3

RECURSIVE Concat(_)
Concat(ss) == IF ss = <<>> THEN <<>> ELSE Head(ss) \o Concat(Tail(ss))

RECURSIVE LevelOrder(_, _)
\* the nodes below the directories of `frontier`, level by level: the
\* children of the frontier's directories in frontier order, then the same
\* for the directories among them
LevelOrder(d, frontier) ==
    IF frontier = <<>> THEN <<>>
    ELSE LET level == Concat([k \in 1..Len(frontier) |-> Children(d, frontier[k])])
         IN  level \o LevelOrder(d, SelectSeq(level, LAMBDA i : d[i].isdir))

IdsOf(evs) == [i \in 1..Len(evs) |-> evs[i].id]

\* C27: the entries iterdir has yielded are, in order, the first entries of
\* the level order of the tree below the root (without the directories when
\* only_file is set): depth by depth, the directories of a level in the order
\* they were met, the entries of a directory in listing order; the
\* directories are listed in that order too, the root first.
C27_LevelOrder ==
    \A w \in Workers :
      pc[w] \in {"traverse", "stopped", "raised"} =>
        LET root == loc[w].current_parent_id
            order == LevelOrder(drive, <<root>>)
            wanted == IF loc[w].it.only_file
                      THEN SelectSeq(order, LAMBDA i : ~drive[i].isdir)
                      ELSE order
            listed == IdsOf(SelectSeq(ListEvents(w), LAMBDA e : e.n = 0))
            ys == YieldEvents(w)
        IN  /\ IsPrefix(IdsOf(ys), wanted)
            /\ IsPrefix(listed, <<root>> \o SelectSeq(order, LAMBDA i : drive[i].isdir))
            /\ \A i, j \in 1..Len(ys) : i < j => Len(ys[i].path) <= Len(ys[j].path)

\* a traversal came to its end having yielded an entry of the first level
\* after its elder sibling and before that sibling's child, although the
\* child comes first in the drive's numbering
C27_Witness ==
    \E w \in Workers :
      /\ pc[w] = "stopped"
      /\ \E i, j \in 1..Len(YieldEvents(w)) :
            /\ i < j
            /\ YieldEvents(w)[i].id > YieldEvents(w)[j].id
            /\ Len(YieldEvents(w)[i].path) < Len(YieldEvents(w)[j].path)

\* the positions in ListEvents(w) of the requests made for directory dir
RequestsFor(w, dir) == {i \in 1..Len(ListEvents(w)) : ListEvents(w)[i].id = dir}

\* whether iterdir is through with directory dir: it has asked for it, and
\* has stopped or gone on to another directory
ThroughWith(w, dir) ==
    /\ RequestsFor(w, dir) # {}
    /\ \/ pc[w] = "stopped"
       \/ loc[w].it.active /\ loc[w].it.cur_id # dir

\* C29: the requests for one directory follow each other without a request
\* for another directory in between; the first carries cursor 0 and each
\* later one the Next of the response before it, which was not the end
\* sentinel; once iterdir is through with a directory, the last response it
\* got carried the end sentinel, and every entry of the directory (every
\* file, under only_file) has been yielded, in listing order.
C29_Paging ==
    \A w \in Workers :
      pc[w] \in {"traverse", "stopped", "raised"} =>
        LET ls == ListEvents(w)
            ys == YieldEvents(w)
        IN  \A dir \in {0} \cup DirIds(drive) :
              LET rs == RequestsFor(w, dir)
                  ch == Children(drive, dir)
                  due == IF loc[w].it.only_file
                         THEN SelectSeq(ch, LAMBDA i : ~drive[i].isdir)
                         ELSE ch
                  got == SelectSeq(IdsOf(ys), LAMBDA i : drive[i].parent = dir)
              IN  /\ \A i \in rs :
                        IF i - 1 \in rs
                        THEN LET before == FsList(drive, mtime, dir, ls[i - 1].n)
                             IN  before.Next # EndSentinel /\ ls[i].n = before.Next
                        ELSE ls[i].n = 0 /\ \A j \in rs : j >= i
                  /\ ThroughWith(w, dir) =>
                        /\ \E i \in rs :
                              /\ \A j \in rs : j <= i
                              /\ FsList(drive, mtime, dir, ls[i].n).Next = EndSentinel
                        /\ got = due

\* a traversal came to its end over a directory of more entries than a page
\* holds: two requests were made for it, the second with the cursor of the
\* first response, and an entry of the second page was yielded
C29_Witness ==
    \E w \in Workers :
      /\ pc[w] = "stopped"
      /\ \E dir \in {0} \cup DirIds(drive) :
            /\ Cardinality(RequestsFor(w, dir)) >= 2
            /\ \E i \in RequestsFor(w, dir) : ListEvents(w)[i].n = PageSize
            /\ \E k \in 1..Len(YieldEvents(w)) :
                  YieldEvents(w)[k].id = Children(drive, dir)[PageSize + 1]

(***************************************************************************)
(* More properties of the sync passes (Spec).                              *)
(***************************************************************************)
\* the start of the pair in whose course position j of the history lies
PairBefore(w, j) ==
    LET starts == {i \in Kinds(w, {"pair"}) : i < j}
    IN  CHOOSE i \in starts : \A k \in starts : k <= i

\* C28: when a listing fails in a pass, nothing more of that pair happens: the
\* record that follows the failure begins the next configured line or ends
\* the pass; the files written for the pair before the failure are still
\* there; and a pass that reached its end has begun every configured line,
\* the one after the failed pair included.
C28_ListingErrorEndsPair ==
    \A w \in Workers :
      (Returned(w) /\ InPass(w)) =>
        \A j \in Kinds(w, {"pair_error"}) :
          log[w][j].path = <<"list">> =>
            /\ j < Len(log[w])
            /\ log[w][j + 1].ev \in {"pair", "bad_line", "completed", "top_error"}
            /\ \A i \in Kinds(w, {"write"}) \cap PairBefore(w, j)..j :
                  /\ log[w][i].path \in DOMAIN localFiles
                  /\ localFiles[log[w][i].path].src = log[w][i].id
            /\ Last(log[w]).ev = "completed" =>
                  Len(LineEvents(w)) = Len(StripLines(self._full_sync_strm_paths))

\* a pass reached its end in which the second page of /media/movies failed
\* to list after A.strm had been written: A.strm is there, nothing was done
\* for sub/B 1.MKV, and the next pair was begun right after the failure
C28_Witness ==
    \E w \in Workers :
      /\ Returned(w) /\ InPass(w) /\ Last(log[w]).ev = "completed"
      /\ \E j \in Kinds(w, {"pair_error"}) :
            /\ log[w][j].path = <<"list">>
            /\ Kinds(w, {"write"}) \cap PairBefore(w, j)..j # {}
            /\ Kinds(w, {"list"}) \cap PairBefore(w, j)..j # {}
            /\ log[w][j + 1].ev = "pair"
      /\ \A i \in Kinds(w, {"entry", "skip"}) : log[w][i].id # 7
      /\ <<"/", "local", "movies", "A.strm">> \in DOMAIN localFiles

(***************************************************************************)
(* Side effects of an ignored entry (SpecRace: every entry of the pair is  *)
(* ignored there, or skipped by the incremental filter).                   *)
(***************************************************************************)
\* the records worker w appends in the step
Appended(w) == SubSeq(log'[w], Len(log[w]) + 1, Len(log'[w]))

\* C30: a step in which a pass handles an ignored entry creates no local
\* directory and no local file, changes no local file, and makes no remote
\* request (no download, no listing).
C30_IgnoredNoSideEffect ==
    [][\A w \in Workers :
         (/\ Len(log'[w]) > Len(log[w])
          /\ Last(log'[w]).ev = "ignore") =>
            /\ localDirs' = localDirs
            /\ localFiles' = localFiles
            /\ \A k \in 1..Len(Appended(w)) :
                  Appended(w)[k].ev \notin {"download_info", "list", "write"}]_vars

(***************************************************************************)
(* The layout of the signed link (SpecSign).                               *)
(***************************************************************************)
\* C32: a URL returned by _generate_auth_url is laid out as follows: the
\* expiry is the clock plus the expire minutes times 60; the random number
\* lies in 0..2^31-1; the request path is '/' uid '/' followed by the decoded
\* path; the signature is the digest of request path, expiry, random number,
\* uid and secret_key in this order; auth_key is expiry, random number, uid
\* and signature in this order; the URL is the domain without its trailing
\* slash (https:// put before it when it has no scheme), the request path and
\* the auth_key; the secret_key is found inside the digest only.
C32_UrlLayout ==
    \A w \in Workers :
      \A i \in Called(w, "_generate_auth_url") :
        LET c == log[w][i]
            uid == c.on._uid
            expire_at == c.now + c.on._expire_time * 60
            request_path == <<"", uid>> \o unquote(c.file_path)
            signature == <<"md5", request_path, expire_at, c.rand, uid, c.on._secret_key>>
            domain == RStripSlash(c.on._custom_domain)
        IN  ~c.raised =>
              /\ c.rand \in 0..2147483647
              /\ c.ret.path = request_path
              /\ c.ret.auth_key = <<expire_at, c.rand, uid, signature>>
              /\ c.ret.domain \in {domain, "https://" \o domain}
              /\ c.ret.domain # c.on._custom_domain \o "/"
              /\ DOMAIN c.ret = {"domain", "path", "auth_key"}
              /\ c.ret.domain # c.on._secret_key
              /\ \A k \in 1..Len(c.ret.path) : c.ret.path[k] # c.on._secret_key
              /\ c.ret.auth_key[3] # c.on._secret_key

\* a URL was returned for the encoded path of sub/B 1.MKV, on a domain
\* configured with a trailing slash, with the largest random number and an
\* expiry of one minute
C32_Witness ==
    \E i \in Called("w1", "_generate_auth_url") :
      LET c == log["w1"][i]
      IN  /\ ~c.raised
          /\ Last(c.file_path) = "B%201.MKV" /\ Last(c.ret.path) = "B 1.MKV"
          /\ c.on._custom_domain = "cdn.example/" /\ c.ret.domain = "https://cdn.example"
          /\ c.rand = 2147483647
          /\ c.ret.auth_key[1] = c.now + 60

(***************************************************************************)
(* last_sync_time over a sequence of passes (Spec).                        *)
(***************************************************************************)
\* the decision the filter of an incremental pass takes on remote file f when
\* it starts in the present state: TRUE when f is skipped
SkippedNext(f) == Unmodified(RemoteTime(f), self._last_sync_time)

\* C31: a pass in which the processing of an entry raised still completes and
\* advances last_sync_time; unless the file was modified while the pass ran,
\* the new value is not below the modified time the entry had when it was
\* handled, so, until the file is modified again, the filter of every
\* incremental pass that starts from here skips it although nothing was
\* written for it.
C31_FailedEntryNotRetried ==
    \A w \in Workers :
      (Returned(w) /\ InPass(w) /\ Last(log[w]).ev = "completed") =>
        /\ loc[w].pass_ret = "True"
        /\ \A i \in Kinds(w, {"error"}) :
              LET f == log[w][i].id
              IN  /\ \E j \in Kinds(w, {"entry"}) :
                        /\ j < i /\ log[w][j].id = f
                        /\ f \notin loc[w].touched =>
                              log[w][j].n <= self._last_sync_time
                        /\ (f \notin loc[w].touched /\ RemoteTime(f) = log[w][j].n)
                              => SkippedNext(f)
                  /\ log[w][i].path \notin Written(w)

\* an incremental pass completed in which the write for sub/B 1.MKV raised:
\* no pointer file exists for it, last_sync_time moved past its modified
\* time, and the next incremental pass will skip it
C31_Witness ==
    \E w \in Workers :
      /\ Returned(w) /\ loc[w].mode = "incr" /\ loc[w].pass_ret = "True"
      /\ \E i \in Kinds(w, {"error"}) :
            /\ log[w][i].id = 7
            /\ log[w][i].path \notin DOMAIN localFiles
      /\ loc[w].start_lst < RemoteTime(7)
      /\ SkippedNext(7)

\* C34: a full pass that completes sets last_sync_time to the clock at its
\* completion; a remote file modified while the pass was running, and not
\* again after it completed, is skipped by the filter of every incremental
\* pass that starts from here, also when the full pass handled it before it
\* was modified.
C34_FullPassStampsCompletion ==
    \A w \in Workers :
      (Returned(w) /\ loc[w].mode = "full" /\ loc[w].pass_ret = "True") =>
        /\ self._last_sync_time = loc[w].end_clock
        /\ stored.last_sync_time = StrOf(loc[w].end_clock)
        /\ \A f \in loc[w].touched :
              RemoteTime(f) <= loc[w].end_clock => SkippedNext(f)

\* a full pass handled A.mkv as modified at second 1, A.mkv was then modified
\* and the clock went on before the pass completed: the pointer file was
\* written from the old state and the next incremental pass skips A.mkv
C34_Witness ==
    \E w \in Workers :
      /\ Returned(w) /\ loc[w].mode = "full" /\ loc[w].pass_ret = "True"
      /\ loc[w].touched = {4}
      /\ \E i \in Kinds(w, {"entry"}) : log[w][i].id = 4 /\ log[w][i].n = 1
      /\ RemoteTime(4) > 1
      /\ loc[w].start_clock < loc[w].end_clock
      /\ SkippedNext(4)

\* C35: the step that completes a pass never lowers last_sync_time;
\* last_sync_time never exceeds the clock; and after a pass that completed
\* the persisted last_sync_time is the one in memory.
C35_SyncTimeMonotone ==
    /\ [][\A w \in Workers :
            (pc[w] = "finish" /\ pc'[w] = "done") =>
               self'._last_sync_time >= self._last_sync_time]_vars
    /\ [](self._last_sync_time <= clock)
    /\ [](\A w \in Workers :
            (Returned(w) /\ InPass(w) /\ loc[w].pass_ret = "True") =>
               /\ stored # NoConfig
               /\ stored.last_sync_time = StrOf(self._last_sync_time))

\* an incremental pass completed and raised last_sync_time to the second it
\* started in, which lies behind the clock by now
C35_Witness ==
    \E w \in Workers :
      /\ Returned(w) /\ loc[w].mode = "incr" /\ loc[w].pass_ret = "True"
      /\ loc[w].start_lst > 0
      /\ loc[w].start_lst < self._last_sync_time
      /\ self._last_sync_time < clock
      /\ stored.last_sync_time = StrOf(self._last_sync_time)

(***************************************************************************)
(* The cutoff of an incremental pass while another pass runs (SpecRace).   *)
(***************************************************************************)
\* C36: in an incremental pass every entry is compared with the value
\* last_sync_time had when the pass started: an entry is processed if its
\* modified time is above that value and skipped otherwise, whatever another
\* pass wrote to last_sync_time in the meantime.
C36_OneCutoffPerPass ==
    \A w \in Workers :
      loc[w].mode = "incr" =>
        \A i \in Kinds(w, {"entry", "skip"}) :
          (log[w][i].ev = "entry") <=> (log[w][i].n > loc[w].start_lst)

(***************************************************************************)
(* One-shot jobs and stop_service (SpecStop).  The user saves a            *)
(* configuration with one-shot flags, the host calls stop_service, and the *)
(* jobs of the started schedulers fire on worker w2 and run their pass to  *)
(* the end.  The configurations name the single pair PairTv; no failure is *)
(* injected, and the host calls between two passes.  The history of worker *)
(* w1 keeps the host calls as in SpecLife.                                 *)
(***************************************************************************)
BothShots ==
    [Working EXCEPT !.full_sync_strm_paths = <<PairTv>>,
                    !.once_full_sync_strm = TRUE,
                    !.once_incremental_sync = TRUE,
                    !.last_sync_time = StrOf(2)]

StopConfigs == { BothShots, [BothShots EXCEPT !.once_full_sync_strm = FALSE] }

\* a freshly constructed plugin; no failure and no remote change is left to
\* inject
InitStop ==
    /\ drive = MediaDrive
    /\ mtime = MediaTimes
    /\ clock = InitClock
    /\ self = ClassAttributes
    /\ stored = NoConfig
    /\ orphans = {}
    /\ localDirs = {<<"/">>}
    /\ localFiles = <<>>
    /\ pc = [w \in Workers |-> "idle"]
    /\ loc = [w \in Workers |-> NoLoc]
    /\ log = [w \in Workers |-> <<>>]
    /\ events = MaxEvents
    /\ inits = 0

\* the user saves a configuration
StopInitPlugin(w) ==
    /\ Quiet
    /\ \E config \in StopConfigs : LifeInitPlugin(w, config)

StopStopService(w) ==
    /\ Quiet
    /\ LifeStopService(w)

\* a one-shot job fires and runs its pass to the end
StopJob(w) ==
    \/ RunJob(w)
    \/ NextPair(w)
    \/ ResolvePart(w)
    \/ IterFetch(w)
    \/ IterItem(w)
    \/ PairDone(w)
    \/ Finish(w)
    \/ Return(w)

NextStop ==
    \/ StopInitPlugin("w1")
    \/ StopStopService("w1")
    \/ StopJob("w2")
    \/ Tick

SpecStop == InitStop /\ [][NextStop]_vars

\* a started scheduler runs its date job and a started pass goes on
SpecStopFair == SpecStop /\ WF_vars(StopJob("w2"))

\* the last host call is the init_plugin that consumed both one-shot flags,
\* and neither of its jobs has fired
BothPending ==
    /\ log["w1"] # <<>>
    /\ Last(log["w1"]).fn = "init_plugin"
    /\ Asked(Last(log["w1"])).enabled
    /\ Asked(Last(log["w1"])).flags = {"full", "incr"}
    /\ RefJobs(self) = {"incr"}
    /\ "full" \in orphans

\* stop_service was the last host call and left the full job behind
FullLeftBehind ==
    /\ log["w1"] # <<>>
    /\ Last(log["w1"]).fn = "stop_service"
    /\ RefJobs(self) = {}
    /\ "full" \in orphans

\* this step is a call of stop_service
StopServiceStep ==
    /\ Len(log'["w1"]) = Len(log["w1"]) + 1
    /\ Last(log'["w1"]).fn = "stop_service"

\* C37: an init_plugin call of an enabled plugin with both one-shot flags
\* starts two jobs, the full one and the incremental one, and the instance
\* refers only to the scheduler of the incremental one.  stop_service leaves
\* the instance without a scheduler and touches no other scheduler: called
\* before the two jobs fire, it leaves the full job pending and the
\* incremental job cancelled, the job that fires next is the full one, and
\* it does fire.
C37_StopCancelsOnlySecond ==
    /\ [](\A i \in Called("w1", "init_plugin") :
            LET c == log["w1"][i]
            IN  (Asked(c).enabled /\ Asked(c).flags = {"full", "incr"}) =>
                  /\ c.jobs = {"full", "incr"}
                  /\ RefJobs(c.after) = {"incr"})
    /\ [](\A i \in Called("w1", "stop_service") : RefJobs(log["w1"][i].after) = {})
    /\ [][StopServiceStep => (orphans' = orphans /\ RefJobs(self') = {})]_vars
    /\ [][(BothPending /\ StopServiceStep) => FullLeftBehind']_vars
    /\ [][(FullLeftBehind /\ pc["w2"] = "idle" /\ pc'["w2"] # "idle")
             => (loc'["w2"].func = "full" /\ "full" \notin orphans')]_vars
    /\ (FullLeftBehind ~> (pc["w2"] # "idle" /\ loc["w2"].func = "full"))

\* stop_service came right after the init_plugin call that consumed both
\* flags, and the full pass runs all the same; no incremental pass ran
C37_Witness ==
    /\ Len(log["w1"]) = 2
    /\ log["w1"][1].fn = "init_plugin"
    /\ log["w1"][1].jobs = {"full", "incr"}
    /\ log["w1"][2].fn = "stop_service"
    /\ RefJobs(log["w1"][2].on) = {"incr"}
    /\ Returned("w2")
    /\ loc["w2"].func = "full"
    /\ loc["w2"].pass_ret = "True"
    /\ self._scheduler = NoSched
    /\ orphans = {}

(***************************************************************************)
(* Two remote files with one stem (SpecStem).  The remote directory        *)
(* /media/movies holds A.mkv and A.mp4, in either listing order, and       *)
(* C.mp4; mkv and mp4 are both streamable.  One worker runs full and       *)
(* incremental passes over the pair PairMovies; an entry may fail.         *)
(***************************************************************************)
StemDrives ==
    { << Node(0, "media", TRUE), Node(1, "movies", TRUE),
         Node(2, first, FALSE), Node(2, second, FALSE), Node(2, "C.mp4", FALSE) >> :
        first \in {"A.mkv", "A.mp4"}, second \in {"A.mkv", "A.mp4"} }
      \ { << Node(0, "media", TRUE), Node(1, "movies", TRUE),
             Node(2, same, FALSE), Node(2, same, FALSE), Node(2, "C.mp4", FALSE) >> :
            same \in {"A.mkv", "A.mp4"} }

StemTimes == [i \in 1..5 |-> IF i \in {3, 4} THEN 2 ELSE Absent]

Stemmed ==
    [Working EXCEPT !.full_sync_strm_paths = <<PairMovies>>,
                    !.user_rmt_mediaext = <<"mkv", "mp4">>,
                    !.last_sync_time = StrOf(1)]

InitStem ==
    /\ drive \in StemDrives
    /\ mtime = StemTimes
    /\ clock = InitClock
    /\ self = Load(Preset(ClassAttributes, InitClock), Stemmed, InitClock)
    /\ stored = ConfigOf(self)
    /\ orphans = {}
    /\ localDirs = {<<"/">>}
    /\ localFiles = <<>>
    /\ pc = [w \in Workers |-> "idle"]
    /\ loc = [w \in Workers |-> NoLoc]
    /\ log = [w \in Workers |-> <<>>]
    /\ events = 0
    /\ inits = 1

StemPass(w) ==
    \/ full_sync_strm_files(w)
    \/ incremental_sync_files(w)
    \/ NextPair(w)
    \/ ResolvePart(w)
    \/ IterFetch(w)
    \/ IterItem(w)
    \/ PairDone(w)
    \/ Finish(w)
    \/ Return(w)

NextStem == StemPass("w1") \/ Tick

SpecStem == InitStem /\ [][NextStem]_vars

\* the relpath of the entry that event i of worker w is about
RelpathOf(w, i) ==
    LET j == CHOOSE k \in Kinds(w, {"entry"}) : log[w][k].id = log[w][i].id
    IN  log[w][j].path

\* the remote directory, relative to the pair's root, of that entry
RemoteDirOf(w, i) == SubSeq(RelpathOf(w, i), 1, Len(RelpathOf(w, i)) - 1)

\* the pointer files worker w has written in this call so far
PointerWrites(w) ==
    {i \in Kinds(w, {"write"}) : localFiles[log[w][i].path].kind = "strm"}

\* C38: the pointer file of a streamable entry is named by the local
\* directory of the entry and the stem of its name alone: two entries of one
\* remote directory with the same stem are written to the same pointer
\* file, entries with different stems to different ones, and a pointer file
\* written in the pass holds the URL of the entry that was written to it
\* last, which of two entries that both succeed is the one yielded last.
C38_SameStemSamePointer ==
    \A w \in Workers :
      InPass(w) =>
        /\ \A i \in PointerWrites(w) :
             /\ log[w][i].path =
                  Parent(LocalPath(loc[w].local_path, loc[w].pan_path, RelpathOf(w, i)))
                    \o <<Stem(Last(RelpathOf(w, i))) \o ".strm">>
             /\ \A j \in PointerWrites(w) :
                  (log[w][i].path = log[w][j].path) <=>
                     /\ RemoteDirOf(w, i) = RemoteDirOf(w, j)
                     /\ Stem(Last(RelpathOf(w, i))) = Stem(Last(RelpathOf(w, j)))
        /\ \A i \in PointerWrites(w) :
             (\A j \in PointerWrites(w) : log[w][j].path = log[w][i].path => j <= i) =>
               /\ localFiles[log[w][i].path].src = log[w][i].id
               /\ localFiles[log[w][i].path].path =
                    unquote(<<"", self._uid>> \o
                              quote(StripSlash(loc[w].pan_path \o RelpathOf(w, i))))

\* A.mp4 was listed before A.mkv, both were written to /local/movies/A.strm,
\* and the file holds the URL of A.mkv
C38_Witness ==
    /\ Returned("w1")
    /\ \E i, j \in PointerWrites("w1") :
          /\ i < j
          /\ drive[log["w1"][i].id].name = "A.mp4"
          /\ drive[log["w1"][j].id].name = "A.mkv"
          /\ log["w1"][i].path = <<"/", "local", "movies", "A.strm">>
          /\ log["w1"][j].path = log["w1"][i].path
          /\ localFiles[log["w1"][j].path].src = log["w1"][j].id

(***************************************************************************)
(* FullSyncStrmHelper (SpecHelper).  In this specification self is the     *)
(* helper object, constructed once, and generate_strm_files is called on   *)
(* it up to MaxPasses times by worker w1.  loc holds the locals of the     *)
(* call and, as history, the number of calls and what the call found; log  *)
(* holds the events of the call that runs or ran last.  The traversal is   *)
(* the module-level iterdir with only_file = True.                         *)
(***************************************************************************)
MaxPasses == 2      \* generate_strm_files calls per behaviour

\* [f".{ext.strip()}" for ext in text.replace("，", ",").split(",")]
HelperExts(tokens) == {"." \o Strip(tokens[i]) : i \in 1..Len(tokens)}

\* server_address.rstrip("/")
RStripAddress(server_address) ==
    IF server_address = "http://mp.local:3000/" THEN "http://mp.local:3000"
    ELSE server_address

\* FullSyncStrmHelper(client, user_rmt_mediaext, user_download_mediaext,
\*                    server_address, storagechain, auto_download_mediainfo)
FullSyncStrmHelper(user_rmt_mediaext, user_download_mediaext, server_address, auto_download_mediainfo) ==
    [rmt_mediaext |-> HelperExts(user_rmt_mediaext),
     download_mediaext |-> HelperExts(user_download_mediaext),
     auto_download_mediainfo |-> auto_download_mediainfo,
     strm_count |-> 0,
     mediainfo_count |-> 0,
     server_address |-> RStripAddress(server_address)]

\* the path-pair texts handed to generate_strm_files
HelperTexts ==
    { <<PairMovies, PairTv>>,
      <<PairGone, PairTv>>,
      <<BlankLine, PairTv, Malformed>> }

NoCall ==
    [full_sync_strm_paths |-> <<>>, paths |-> <<>>, target_dir |-> EmptyStr, pan_media_dir |-> EmptyStr,
     it |-> NoIter, ret |-> "none",
     \* history: the calls begun so far, and what this call found
     calls |-> 0, start_files |-> <<>>, start_dirs |-> {}]

InitHelper ==
    /\ drive = MediaDrive
    /\ mtime = MediaTimes
    /\ clock = InitClock
    /\ \E auto \in BOOLEAN :
         self = FullSyncStrmHelper(<<"mkv", "mp4">>, <<"nfo">>,
                                   "http://mp.local:3000/", auto)
    /\ stored = NoConfig
    /\ orphans = {}
    /\ localDirs = {<<"/">>}
    /\ localFiles = <<>>
    /\ pc = [w \in Workers |-> "idle"]
    /\ loc = [w \in Workers |-> NoCall]
    /\ log = [w \in Workers |-> <<>>]
    /\ events = 0
    /\ inits = 0

\* helper.generate_strm_files(text) is called
HelperCall(w) ==
    /\ pc[w] = "idle"
    /\ loc[w].calls < MaxPasses
    /\ \E text \in HelperTexts :
         /\ Goto(w, "pairs", [NoCall EXCEPT !.full_sync_strm_paths = text,
                                            !.paths = text,
                                            !.calls = loc[w].calls + 1,
                                            !.start_files = localFiles,
                                            !.start_dirs = localDirs])
         /\ log' = [log EXCEPT ![w] = <<Ev("call", 0, <<"generate_strm_files">>,
                                           loc[w].calls + 1)>>]
    /\ UNCHANGED <<drive, mtime, clock, self, stored, orphans, localDirs,
                   localFiles, events, inits>>

\* a variant in which a failure ends the pair only, for comparison
HelperExceptContinue(l) ==
    [label |-> "pairs", loc |-> [l EXCEPT !.paths = Tail(@), !.it = NoIter]]

\* the two handlers `except Exception: ... return False`
HelperExcept(l) == [label |-> "done", loc |-> [l EXCEPT !.ret = "False", !.it = NoIter]]

RECURSIVE FileItemId(_, _, _)
\* storagechain.get_file_item(storage, path).fileid: the id of the directory
\* the path names, -1 when there is none (fileitem is None)
FileItemId(d, id, parts) ==
    IF parts = <<>> THEN id
    ELSE LET hits == {i \in 1..Len(d) :
                        d[i].parent = id /\ d[i].isdir /\ d[i].name = Head(parts)}
         IN  IF hits = {} THEN -1
             ELSE FileItemId(d, CHOOSE i \in hits : TRUE, Tail(parts))

\* `for path in media_paths`: one iteration up to the directory lookup.
\* fail: get_file_item raises.
HelperNextPair(w) ==
    /\ pc[w] = "pairs"
    /\ LET l == loc[w]
           path == Head(l.paths)
           rest == [l EXCEPT !.paths = Tail(@)]
       IN  IF l.paths = <<>>
           THEN /\ Goto(w, "done", [l EXCEPT !.ret = "True"])
                /\ Logged(w, <<Ev("return", 0, <<"True">>, 0)>>)
                /\ UNCHANGED events
           ELSE IF path = BlankLine
           THEN /\ Goto(w, "pairs", rest)
                /\ UNCHANGED <<log, events>>
           ELSE IF Len(path) < 2
           THEN /\ Goto(w, "done", [l EXCEPT !.ret = "raised"])
                /\ Logged(w, <<Ev("index_error", 0, path[1], 0)>>)
                /\ UNCHANGED events
           ELSE LET found == FileItemId(drive, 0, NonEmptySegs(path[2]))
                IN  \E fail \in BOOLEAN :
                      /\ fail => events < MaxEvents
                      /\ events' = IF fail THEN events + 1 ELSE events
                      /\ IF fail \/ found = -1
                         THEN /\ Goto(w, HelperExcept(l).label, HelperExcept(l).loc)
                              /\ Logged(w, <<Ev("lookup_error", 0, path[2], 0)>>)
                         ELSE /\ Goto(w, "iter",
                                      [l EXCEPT !.target_dir = path[1],
                                                !.pan_media_dir = path[2],
                                                !.it = iterdir(found, TRUE)])
                              /\ Logged(w, <<Ev("pair", found, path[2], 0)>>)
    /\ UNCHANGED <<drive, mtime, clock, self, stored, orphans, localDirs,
                   localFiles, inits>>

\* iterdir asks for the next page.  fail: check_response raises.
HelperFetch(w) ==
    /\ pc[w] = "iter"
    /\ loc[w].it.items = <<>>
    /\ ~Exhausted(loc[w].it)
    /\ LET l == loc[w]
           g == Dequeue(l.it)
           resp == FsList(drive, mtime, g.cur_id, g.next)
       IN  \E fail \in BOOLEAN :
             /\ fail => events < MaxEvents
             /\ events' = IF fail THEN events + 1 ELSE events
             /\ IF fail
                THEN /\ Goto(w, HelperExcept(l).label, HelperExcept(l).loc)
                     /\ Logged(w, <<Ev("list_error", g.cur_id, g.cur_path, g.next)>>)
                ELSE /\ Goto(w, "iter", [l EXCEPT !.it = TakePage(g, resp)])
                     /\ Logged(w, <<Ev("list", g.cur_id, g.cur_path, g.next)>>)
    /\ UNCHANGED <<drive, mtime, clock, self, stored, orphans, localDirs,
                   localFiles, inits>>

\* what the helper does with a file of this name
HelperClassify(s, name) ==
    IF s.auto_download_mediainfo /\ Suffix(name) \in s.download_mediaext
    THEN "sidecar"
    ELSE IF Suffix(name) \notin s.rmt_mediaext THEN "ignored"
    ELSE "streamable"

\* what can happen to an entry of that kind: ok; nourl, DownloadUrl is empty;
\* info, download_info is an error response; get, the download fails; open,
\* the pointer file cannot be written
HelperOutcomes(kind) ==
    CASE kind = "sidecar" -> {"ok", "nourl", "info", "get"}
      [] kind = "streamable" -> {"ok", "open"}
      [] OTHER -> {"ok"}

\* the body of `for item in iterdir(...)` for one yielded item
HelperBody(s, l, item, out, dirs, files) ==
    LET file_path == LocalPath(l.target_dir, l.pan_media_dir, item.relpath)
        new_file_path == Parent(file_path) \o <<Stem(Last(file_path)) \o ".strm">>
        kind == HelperClassify(s, Last(file_path))
        dirs1 == Mkdirs(dirs, Parent(file_path))
    IN  CASE kind = "sidecar" /\ out = "ok" ->
               [inst |-> [s EXCEPT !.mediainfo_count = @ + 1], dirs |-> dirs1,
                files |-> WriteFile(files, file_path,
                                    [kind |-> "data", src |-> item.id,
                                     domain |-> "", path |-> <<>>]),
                failed |-> FALSE,
                evs |-> <<Ev("download", item.id, file_path, 0)>>]
          [] kind = "sidecar" /\ out = "nourl" ->
               [inst |-> s, dirs |-> dirs, files |-> files, failed |-> FALSE,
                evs |-> <<Ev("nourl", item.id, file_path, 0)>>]
          [] kind = "sidecar" /\ out = "info" ->
               [inst |-> s, dirs |-> dirs, files |-> files, failed |-> TRUE,
                evs |-> <<Ev("entry_error", item.id, file_path, 0)>>]
          [] kind = "sidecar" /\ out = "get" ->
               [inst |-> s, dirs |-> dirs1, files |-> files, failed |-> TRUE,
                evs |-> <<Ev("entry_error", item.id, file_path, 0)>>]
          [] kind = "streamable" /\ out = "ok" ->
               [inst |-> [s EXCEPT !.strm_count = @ + 1], dirs |-> dirs1,
                files |-> WriteFile(files, new_file_path,
                                    [kind |-> "strm", src |-> item.id,
                                     domain |-> s.server_address,
                                     path |-> <<item.FileName>>]),
                failed |-> FALSE,
                evs |-> <<Ev("write", item.id, new_file_path, 0)>>]
          [] kind = "streamable" /\ out = "open" ->
               [inst |-> s, dirs |-> dirs1, files |-> files, failed |-> TRUE,
                evs |-> <<Ev("entry_error", item.id, new_file_path, 0)>>]
          [] OTHER ->
               [inst |-> s, dirs |-> dirs, files |-> files, failed |-> FALSE,
                evs |-> <<Ev("ignore", item.id, file_path, 0)>>]

\* iterdir handles one item of the page; a yielded item runs the loop body
HelperItem(w) ==
    /\ pc[w] = "iter"
    /\ loc[w].it.items # <<>>
    /\ LET l == loc[w]
           g == l.it
       IN  IF ~Yields(g)
           THEN /\ Goto(w, "iter", [l EXCEPT !.it = StepItem(g)])
                /\ UNCHANGED <<log, self, localDirs, localFiles, events>>
           ELSE \E out \in HelperOutcomes(HelperClassify(self, Yielded(g).FileName)) :
                  LET done == HelperBody(self, l, Yielded(g), out, localDirs, localFiles)
                  IN  /\ out # "ok" => events < MaxEvents
                      /\ events' = IF out # "ok" THEN events + 1 ELSE events
                      /\ self' = done.inst
                      /\ localDirs' = done.dirs
                      /\ localFiles' = done.files
                      /\ IF done.failed
                         THEN Goto(w, HelperExcept(l).label, HelperExcept(l).loc)
                         ELSE Goto(w, "iter", [l EXCEPT !.it = StepItem(g)])
                      /\ Logged(w, done.evs)
    /\ UNCHANGED <<drive, mtime, clock, stored, orphans, inits>>

\* the traversal of the pair is over: on to the next line
HelperPairDone(w) ==
    /\ pc[w] = "iter"
    /\ Exhausted(loc[w].it)
    /\ Goto(w, "pairs", [loc[w] EXCEPT !.paths = Tail(@), !.it = NoIter])
    /\ UNCHANGED <<drive, mtime, clock, self, stored, orphans, localDirs,
                   localFiles, log, events, inits>>

\* the caller has the result
HelperReturn(w) ==
    /\ pc[w] = "done"
    /\ pc' = [pc EXCEPT ![w] = "idle"]
    /\ UNCHANGED <<drive, mtime, clock, self, stored, orphans, localDirs,
                   localFiles, loc, log, events, inits>>

NextHelper ==
    \/ HelperCall("w1")
    \/ HelperNextPair("w1")
    \/ HelperFetch("w1")
    \/ HelperItem("w1")
    \/ HelperPairDone("w1")
    \/ HelperReturn("w1")

SpecHelper == InitHelper /\ [][NextHelper]_vars

(***************************************************************************)
(* Properties of FullSyncStrmHelper (SpecHelper).                          *)
(***************************************************************************)
\* C33: when a generate_strm_files call has returned, strm_count is the
\* number of pointer files that call wrote and mediainfo_count the number of
\* sidecar files that call downloaded, whichever call of the helper it is.
C33_CountersPerPass ==
    \A w \in Workers :
      Returned(w) =>
        /\ self.strm_count = Cardinality(Kinds(w, {"write"}))
        /\ self.mediainfo_count = Cardinality(Kinds(w, {"download"}))

\* the events that make generate_strm_files return False
HelperErrors == {"lookup_error", "list_error", "entry_error"}

\* the lines of the text the call has read so far
LinesRead(w) ==
    SubSeq(loc[w].full_sync_strm_paths, 1,
           Min(Len(loc[w].full_sync_strm_paths),
               Len(loc[w].full_sync_strm_paths) - Len(loc[w].paths) + 1))

\* C39: a failed directory lookup, a failed listing and a raising entry each
\* end the call at once with False: the failure is the last event of the
\* call, the lines after the failing pair are still unread, no entry of a
\* later pair was touched, and every file that existed or was written before
\* the failure is still there with the content it got.
C39_HelperStopsAtFirstFailure ==
    \A w \in Workers :
      /\ \A i \in Kinds(w, HelperErrors) :
           /\ i = Len(log[w])
           /\ pc[w] \in {"done", "idle"}
           /\ loc[w].ret = "False"
           /\ loc[w].paths # <<>>
           /\ Cardinality(Kinds(w, {"pair", "lookup_error"}))
                = Cardinality({k \in 1..Len(LinesRead(w)) : Len(LinesRead(w)[k]) = 2})
      /\ loc[w].ret = "False" => Kinds(w, HelperErrors) # {}
      /\ \A q \in DOMAIN loc[w].start_files : q \in DOMAIN localFiles
      /\ \A i \in Kinds(w, {"write", "download"}) :
           /\ log[w][i].path \in DOMAIN localFiles
           /\ (\A j \in Kinds(w, {"write", "download"}) :
                 log[w][j].path = log[w][i].path => j <= i)
                => localFiles[log[w][i].path].src = log[w][i].id

\* a listing or an entry of /media/movies failed after A.mkv was written;
\* the call returned False with the line of PairTv unread, nothing of
\* /local/tv was created, and A.strm is there
C39_Witness ==
    /\ Returned("w1")
    /\ loc["w1"].ret = "False"
    /\ Last(log["w1"]).ev \in {"list_error", "entry_error"}
    /\ Kinds("w1", {"write"}) # {}
    /\ loc["w1"].paths = <<PairMovies, PairTv>>
    /\ <<"/", "local", "movies", "A.strm">> \in DOMAIN localFiles
    /\ <<"/", "local", "tv">> \notin localDirs

====
